---- MODULE Spec2Model ----
(***************************************************************************)
(* A model of the db-benchmarking load driver: the controller's partition  *)
(* of the ordinal space (main.py), the record producer (producer.py,       *)
(* patient_generator.py) and the per-process pipeline of insert and query  *)
(* workers (runner.py, base_worker.py, postgres/worker.py,                 *)
(* clickhouse/worker.py).                                                  *)
(***************************************************************************)
EXTENDS Integers, Sequences, FiniteSets, TLC

(***************************************************************************)
(* Bounds of the model.                                                    *)
(***************************************************************************)
MaxProcesses == 3
MaxRowsPerSecond == 3
MaxDuration == 2
MaxCounter == 1
MaxPatientCount == 3
MaxProducerThreads == 3
MaxTargetRps == 3
MaxPools == 4
MaxRecords == 2
ExtraRecordsOneWorker == 7
RunPatientCount == 2
MaxBatch == 2
MaxSnapshots == 3
MaxReports == 1

VARIABLES
    \* ---- controller (main.py: main) ----
    args,                       \* parsed command line: processes, rows_per_second,
                                \*   duration, patient_count
    cpc,                        \* the controller's position in main()
    max_counter,                \* what the Sink reported (main.py:132)
    base_start,                 \* main.py:133
    records_per_process_list,   \* main.py:138-141
    patient_starts,             \* main.py:142-144
    schema,                     \* the Sink's schema initialization: who called it, and
                                \*   who is inside it now
    children,                   \* the child processes started so far (main.py:167-191)
    barrier,                    \* multiprocessing.Barrier(processes + 1), main.py:159
    failed,                     \* main.py:203
    progress_queue,             \* the multiprocessing.Queue of snapshots, main.py:156
    agg,                        \* the aggregator thread (progress.py:114-165)
    reporter,                   \* a child's reporter thread (progress.py:172-198)
    snap_log,                   \* every snapshot put on progress_queue, and every one
                                \*   the aggregator has taken off it, in order
    \* ---- the producer of each spawned process (producer.py: run_producer) ----
    producers,                  \* per process: patient_records, patient_start, and the
                                \*   log of the records it has put on its queue
    \* ---- one run_load call (runner.py: run_load) ----
    rl,                         \* its arguments
    mpc,                        \* the position of the thread that called run_load
    sent,                       \* sentinels that thread has put so far in its current loop
    pthreads,                   \* the producer threads (runner.py:174-196)
    insertion_queue,            \* queue.Queue(maxsize=insertion_queue_max), runner.py:78
    unfinished_tasks,           \* insertion_queue's count of items not yet task_done()
    query_queue,                \* queue.Queue(maxsize=query_queue_max), runner.py:82
    inserted_shared,            \* [total, originals, duplicates], runner.py:85
    queries_shared,             \* the query count, runner.py:87
    pool_free,                  \* connections in the Sink pool that are checked in
    iw,                         \* the insert worker threads (base_worker.py: run, _flush)
    qw,                         \* the query worker threads (postgres/worker.py:21-58)
    sink_rows,                  \* the Sink's table: how often each row was written
    looked_up,                  \* how often each record's LookupTask was carried out
    get_clock,                  \* how many records have been taken off insertion_queue
    now                         \* the time, in ticks (time.time(), time.perf_counter())

\* The processes, their barrier and their snapshot channel.
orchVars == <<schema, children, barrier, failed, progress_queue, agg, reporter, snap_log>>

ctlVars == <<args, cpc, max_counter, base_start, records_per_process_list, patient_starts,
             orchVars>>

runVars == <<rl, mpc, sent, pthreads, insertion_queue, unfinished_tasks, query_queue,
             inserted_shared, queries_shared, pool_free, iw, qw,
             sink_rows, looked_up, get_clock, now>>

vars == <<ctlVars, producers, runVars>>

(***************************************************************************)
(* Helpers.                                                                *)
(***************************************************************************)
Max2(a, b) == IF a >= b THEN a ELSE b

RECURSIVE SumSeq(_)
SumSeq(s) == IF s = <<>> THEN 0 ELSE Head(s) + SumSeq(Tail(s))

Prefix(s, n) == SubSeq(s, 1, n)

\* A bag as a function from its elements to their counts (<<>> is empty).
BagCount(bag, x) == IF x \in DOMAIN bag THEN bag[x] ELSE 0

RECURSIVE BagAddAll(_, _)
BagAddAll(bag, xs) ==
    IF xs = <<>> THEN bag
    ELSE BagAddAll([y \in (DOMAIN bag) \cup {Head(xs)} |->
                       BagCount(bag, y) + (IF y = Head(xs) THEN 1 ELSE 0)],
                   Tail(xs))

RECURSIVE BagSizeOver(_, _)
BagSizeOver(bag, S) ==
    IF S = {} THEN 0
    ELSE LET x == CHOOSE y \in S : TRUE IN bag[x] + BagSizeOver(bag, S \ {x})

BagSize(bag) == BagSizeOver(bag, DOMAIN bag)

(***************************************************************************)
(* main.py: the controller.  Process indices are 0-based in the source;    *)
(* a list's element i is at position i + 1 of the sequence modelling it.   *)
(***************************************************************************)

\* main.py:127  total_records = int(args.duration * args.rows_per_second)
total_records_of(a) == a.duration * a.rows_per_second

\* main.py:133  base_start = max(0, max_counter + 1)
BaseStart(m) == Max2(0, m + 1)

\* main.py:139 (and main.py:41): the record share of process i
RecordShareOffByOne(total, processes, i) ==
    (total \div processes) + (IF i <= total % processes THEN 1 ELSE 0)
RecordShareRemainderLast(total, processes, i) ==
    (total \div processes) + (IF i >= processes - (total % processes) THEN 1 ELSE 0)
RecordShare(total, processes, i) ==
    (total \div processes) + (IF i < total % processes THEN 1 ELSE 0)

\* main.py:41: the share child process_index computes for itself
records_this_process(total_records, processes, process_index) ==
    (total_records \div processes)
        + (IF process_index < total_records % processes THEN 1 ELSE 0)

\* main.py:42: the rate child process_index computes for itself
rps_this_process(rows_per_second, processes, process_index) ==
    (rows_per_second \div processes)
        + (IF process_index < rows_per_second % processes THEN 1 ELSE 0)

\* main.py:138-141  the list comprehension over range(args.processes)
RecordsPerProcessList(total, processes) ==
    [k \in 1..processes |-> RecordShare(total, processes, k - 1)]

\* No process is started, no schema initialization has run, no snapshot sent.
OrchIdle ==
    /\ schema = [active |-> {}, by |-> <<>>]
    /\ children = <<>>
    /\ barrier = [parties |-> 0, arrived |-> {}, released |-> FALSE]
    /\ failed = <<>>
    /\ progress_queue = <<>>
    /\ agg = [pc |-> "unstarted"]
    /\ reporter = [pc |-> "unstarted"]
    /\ snap_log = [put |-> <<>>, got |-> <<>>]

CtlInit ==
    /\ args \in [processes : 1..MaxProcesses,
                 rows_per_second : 1..MaxRowsPerSecond,
                 duration : 1..MaxDuration,
                 patient_count : 1..MaxPatientCount,
                 database : {"clickhouse"}]
    /\ cpc = "query_max"
    /\ max_counter = -1
    /\ base_start = 0
    /\ records_per_process_list = <<>>
    /\ patient_starts = <<>>
    /\ OrchIdle

\* main.py:131-133: one Sink query in the controller, then the base ordinal.
\* runner.py:28-39: for postgres the call is
\* pg_backend.get_max_patient_counter_standalone, which postgres/backend.py
\* does not define (see MaxCounterRaises); clickhouse/backend.py:226-240
\* returns the maximum, or -1 on any error.
GetMaxCounter ==
    /\ cpc = "query_max"
    /\ args.database = "clickhouse"
    /\ \E m \in -1..MaxCounter :
        /\ max_counter' = m
        /\ base_start' = BaseStart(m)
    /\ cpc' = IF args.processes > 1 THEN "ensure_schema" ELSE "shares"
    /\ UNCHANGED <<args, records_per_process_list, patient_starts, orchVars>>

\* main.py:138-142: the shares, and patient_starts = [base_start]
ComputeShares ==
    /\ cpc = "shares"
    /\ records_per_process_list' =
           RecordsPerProcessList(total_records_of(args), args.processes)
    /\ patient_starts' = <<base_start>>
    /\ cpc' = "starts"
    /\ UNCHANGED <<args, max_counter, base_start, orchVars>>

\* main.py:143-144: one iteration of  for i in range(1, args.processes)
AppendStart ==
    /\ cpc = "starts"
    /\ Len(patient_starts) < args.processes
    /\ LET i == Len(patient_starts) IN
         patient_starts' = Append(patient_starts,
             patient_starts[Len(patient_starts)] + records_per_process_list[i])
    /\ UNCHANGED <<args, cpc, max_counter, base_start, records_per_process_list, orchVars>>

\* main.py:143: the loop is over; the controller goes on to spawn (main.py:167)
StartsDone ==
    /\ cpc = "starts"
    /\ Len(patient_starts) = args.processes
    /\ cpc' = "spawn"
    /\ UNCHANGED <<args, max_counter, base_start, records_per_process_list, patient_starts,
                   orchVars>>

\* main.py:135-137, runner.py:42-54: with more than one process the controller
\* runs the schema initialization itself (clickhouse/backend.py:123-147)
EnsureSchemaBegin ==
    /\ cpc = "ensure_schema"
    /\ schema' = [schema EXCEPT !.active = schema.active \cup {<<"controller">>}]
    /\ cpc' = "in_schema"
    /\ UNCHANGED <<args, max_counter, base_start, records_per_process_list, patient_starts,
                   children, barrier, failed, progress_queue, agg, reporter, snap_log>>

EnsureSchemaEnd ==
    /\ cpc = "in_schema"
    /\ schema' = [active |-> schema.active \ {<<"controller">>},
                  by |-> Append(schema.by, "controller")]
    /\ cpc' = "shares"
    /\ UNCHANGED <<args, max_counter, base_start, records_per_process_list, patient_starts,
                   children, barrier, failed, progress_queue, agg, reporter, snap_log>>

CtlNext ==
    \/ GetMaxCounter
    \/ EnsureSchemaBegin
    \/ EnsureSchemaEnd
    \/ ComputeShares
    \/ AppendStart
    \/ StartsDone

(***************************************************************************)
(* patient_generator.py and producer.py: the records a producer emits.     *)
(* A patient is modelled by its ordinal (PATIENT_ID is "patient-" and      *)
(* MEDICAL_RECORD_NUMBER is "MRN-" followed by the ordinal in at least ten *)
(* digits, patient_generator.py:24-26: two keys are equal exactly when the *)
(* ordinals are) and by its is_original flag.                              *)
(***************************************************************************)

\* patient_generator.py:21 and producer.py:24: max(1, int(total * 0.75))
NUnique(total) == Max2(1, (total * 3) \div 4)

\* patient_generator.py:21-27: the i-th unique patient of a call (i from 0)
UniquePatientOffByOne(start, i) == [ord |-> start + i + 1, is_original |-> TRUE]
UniquePatient(start, i) == [ord |-> start + i, is_original |-> TRUE]

\* patient_generator.py:12-70
generate_bulk_patients(start, total) ==
    LET n_unique == NUnique(total)
        n_duplicates == total - n_unique
        uniques == [k \in 1..n_unique |-> UniquePatient(start, k - 1)]
        \* patient_generator.py:66-68: patients[j % n_unique].copy(), is_original False
        duplicates == [k \in 1..n_duplicates |->
                         [ord |-> uniques[((k - 1) % n_unique) + 1].ord,
                          is_original |-> FALSE]]
    IN  uniques \o duplicates

\* producer.py:17-33: (record, the list after the pop, next patient_start)
next_record(patient_records, patient_count, patient_start) ==
    LET n_unique == NUnique(patient_count)
        refill == patient_records = <<>>
        pool == IF refill
                THEN generate_bulk_patients(patient_start, patient_count)
                ELSE patient_records
    IN  [record |-> Head(pool),
         patient_records |-> Tail(pool),
         patient_start |-> IF refill THEN patient_start + n_unique ELSE patient_start]

\* main.py:167-191: one process per index, each given patient_starts[i]; the
\* producer of process i starts with an empty pool (producer.py:53)
Spawn ==
    /\ cpc = "spawn"
    /\ producers' = [k \in 1..args.processes |->
                        [patient_records |-> <<>>,
                         patient_start |-> patient_starts[k],
                         log |-> <<>>]]
    /\ cpc' = "join"
    /\ UNCHANGED <<args, max_counter, base_start, records_per_process_list, patient_starts,
                   orchVars>>

\* producer.py:57-60: the producer of process i (0-based) takes its next record
\* and puts it on its queue.  A process emits at most its record share.
Emit(i) ==
    /\ cpc = "join"
    /\ Len(producers[i + 1].log) < records_per_process_list[i + 1]
    /\ LET p == producers[i + 1]
           r == next_record(p.patient_records, args.patient_count, p.patient_start)
       IN  producers' = [producers EXCEPT ![i + 1] =
                            [patient_records |-> r.patient_records,
                             patient_start |-> r.patient_start,
                             log |-> Append(p.log, r.record)]]
    /\ UNCHANGED ctlVars

\* No run_load call is in progress.
RunIdle ==
    /\ rl = [mode |-> "none"]
    /\ mpc = "none"
    /\ sent = 0
    /\ pthreads = <<>>
    /\ insertion_queue = <<>>
    /\ unfinished_tasks = 0
    /\ query_queue = <<>>
    /\ inserted_shared = [total |-> 0, originals |-> 0, duplicates |-> 0]
    /\ queries_shared = 0
    /\ pool_free = 0
    /\ iw = <<>>
    /\ qw = <<>>
    /\ sink_rows = <<>>
    /\ looked_up = <<>>
    /\ get_clock = 0
    /\ now = 0

(***************************************************************************)
(* The specification of the controller's partition and of the records the  *)
(* processes' producers emit from it.                                      *)
(***************************************************************************)
Init == CtlInit /\ producers = <<>> /\ RunIdle

Next ==
    \/ (CtlNext /\ UNCHANGED <<producers, runVars>>)
    \/ (Spawn /\ UNCHANGED runVars)
    \/ \E i \in 0..(MaxProcesses - 1) : i < args.processes /\ Emit(i) /\ UNCHANGED runVars

Spec == Init /\ [][Next]_vars

\* The controller is not part of the specifications of one run_load call.
CtlIdle ==
    /\ args = [processes |-> 1]
    /\ cpc = "none"
    /\ max_counter = -1
    /\ base_start = 0
    /\ records_per_process_list = <<>>
    /\ patient_starts = <<>>
    /\ producers = <<>>
    /\ OrchIdle

(***************************************************************************)
(* main.py:118-206 and runner.py:100-168: the controller and its child     *)
(* processes.  Every child is given total_records, so its run_load call    *)
(* is in fixed-count mode.  A child's setup may fail (the Sink cannot be   *)
(* reached); nothing else in a child is modelled as failing on its own.    *)
(***************************************************************************)

\* progress.py:16: (total, originals, duplicates, total_insert_latency_sec,
\* query_count, query_latency_sec)
ZeroStats == <<0, 0, 0, 0, 0, 0>>

\* progress.py:121-127: the aggregator thread when it starts.  stop is the
\* controller's progress_stop event; printed is what the last tick logged.
AggStart(num_processes) ==
    [pc |-> "wait",
     stop |-> FALSE,
     last_stats |-> [i \in 1..num_processes |-> ZeroStats],
     prev |-> ZeroStats,
     printed |-> <<>>]

\* main.py:120-129: what p.error() rejects
Rejected(a) ==
    \/ a.workers < 1
    \/ a.processes < 1
    \/ a.batch_wait_sec <= 0
    \/ total_records_of(a) <= 0

BarrierPartiesChildrenOnly(processes) == processes

\* main.py:159: Barrier(args.processes + 1)
BarrierParties(processes) == processes + 1

\* threading.Barrier.wait: the party arrives; the barrier opens for everyone
\* once `parties` parties have arrived
Arrive(b, party) ==
    LET arrived == b.arrived \cup {party} IN
    [parties |-> b.parties,
     arrived |-> arrived,
     released |-> b.released \/ Cardinality(arrived) >= b.parties]

\* runner.py:103: skip_schema = progress_queue is not None and process_index
\* is not None; main.py:155-156 creates the queue only for processes > 1 and
\* always passes the index
skip_schema(processes) == processes > 1

OrchInit ==
    /\ args \in [processes : 0..MaxProcesses,
                 rows_per_second : 1..MaxRowsPerSecond,
                 duration : 0..MaxDuration,
                 patient_count : {1},
                 workers : 0..1,
                 batch_wait_sec : 0..1,
                 database : {"postgres", "clickhouse"}]
    /\ cpc = "validate"
    /\ max_counter = -1
    /\ base_start = 0
    /\ records_per_process_list = <<>>
    /\ patient_starts = <<>>
    /\ OrchIdle
    /\ producers = <<>>
    /\ RunIdle

ctlData == <<args, max_counter, base_start, records_per_process_list, patient_starts>>

\* main.py:120-129
Validate ==
    /\ cpc = "validate"
    /\ cpc' = IF Rejected(args) THEN "rejected" ELSE "query_max"
    /\ UNCHANGED <<ctlData, orchVars>>

\* main.py:132, runner.py:31-35: pg_backend.get_max_patient_counter_standalone
\* is not defined in postgres/backend.py; the attribute lookup raises
\* AttributeError and the controller ends with a traceback
MaxCounterRaises ==
    /\ cpc = "query_max"
    /\ args.database = "postgres"
    /\ cpc' = "raised"
    /\ UNCHANGED <<ctlData, orchVars>>

\* main.py:151-165: the queue, the stop event, the barrier and the (not yet
\* started) aggregator thread exist only with more than one process
CreateBarrier ==
    /\ cpc = "spawn"
    /\ barrier' = IF args.processes > 1
                  THEN [parties |-> BarrierParties(args.processes),
                        arrived |-> {}, released |-> FALSE]
                  ELSE barrier
    /\ cpc' = "start_procs"
    /\ UNCHANGED <<ctlData, schema, children, failed, progress_queue, agg, reporter, snap_log>>

\* main.py:190-191: one iteration of  for proc in procs: proc.start()
StartProc ==
    /\ cpc = "start_procs"
    /\ Len(children) < args.processes
    /\ children' = Append(children,
           [pc |-> "started", exitcode |-> <<>>, setup_done |-> FALSE, threads |-> FALSE,
            records |-> <<>>, rps |-> <<>>])
    /\ UNCHANGED <<cpc, ctlData, schema, barrier, failed, progress_queue, agg, reporter, snap_log>>

\* main.py:192-194: the controller waits on the barrier, if there is one
CtlArrive ==
    /\ cpc = "start_procs"
    /\ Len(children) = args.processes
    /\ IF barrier.parties > 0
       THEN /\ barrier' = Arrive(barrier, <<"controller">>)
            /\ cpc' = "barrier_wait"
       ELSE /\ cpc' = "join"
            /\ UNCHANGED barrier
    /\ UNCHANGED <<ctlData, schema, children, failed, progress_queue, agg, reporter, snap_log>>

\* main.py:194-196: the barrier has opened; the aggregator thread is started
CtlStartProgress ==
    /\ cpc = "barrier_wait"
    /\ barrier.released
    /\ agg' = AggStart(args.processes)
    /\ cpc' = "join"
    /\ UNCHANGED <<ctlData, schema, children, barrier, failed, progress_queue, reporter, snap_log>>

\* main.py:203: the indices (0-based) of the children whose exit code is not
\* 0, in ascending order
RECURSIVE FailedFrom(_, _)
FailedFrom(procs, k) ==
    IF k > Len(procs) THEN <<>>
    ELSE (IF procs[k].exitcode # <<0>> THEN <<k - 1>> ELSE <<>>) \o FailedFrom(procs, k + 1)

\* main.py:197-206: every child is joined, the aggregator's stop event is set
\* (its thread is then joined for at most 6 seconds), and the controller
\* raises SystemExit naming the failed children, or ends normally
CtlJoin ==
    /\ cpc = "join"
    /\ \A k \in 1..Len(children) : children[k].pc = "exited"
    /\ failed' = FailedFrom(children, 1)
    /\ agg' = IF agg.pc # "unstarted" THEN [agg EXCEPT !.stop = TRUE] ELSE agg
    /\ cpc' = IF FailedFrom(children, 1) # <<>> THEN "exit_failed" ELSE "exit_ok"
    /\ UNCHANGED <<ctlData, schema, children, barrier, progress_queue, reporter, snap_log>>

childFrame == <<cpc, ctlData, failed, progress_queue, agg, reporter, snap_log>>

\* main.py:41-44: the child computes its share and its rate, and returns at
\* once (exit code 0) when the share is not positive; otherwise it calls
\* run_load
ChildBegin(i) ==
    /\ children[i + 1].pc = "started"
    /\ LET records == records_this_process(total_records_of(args), args.processes, i)
           rps == rps_this_process(args.rows_per_second, args.processes, i)
       IN  children' = [children EXCEPT ![i + 1] =
             IF records <= 0
             THEN [@ EXCEPT !.pc = "exited", !.exitcode = <<0>>,
                            !.records = <<records>>, !.rps = <<rps>>]
             ELSE [@ EXCEPT !.pc = "setup", !.records = <<records>>, !.rps = <<rps>>]]
    /\ UNCHANGED <<childFrame, schema, barrier>>

\* runner.py:104, clickhouse/worker.py:99-113: the pool is created and warmed,
\* and init_schema is entered unless skip_schema
ChildSetupBegin(i) ==
    /\ children[i + 1].pc = "setup"
    /\ children' = [children EXCEPT ![i + 1].pc = "in_setup"]
    /\ schema' = IF skip_schema(args.processes) THEN schema
                 ELSE [schema EXCEPT !.active = schema.active \cup {<<"child", i>>}]
    /\ UNCHANGED <<childFrame, barrier>>

\* clickhouse/worker.py:110-111: creating or warming the pool raises; the
\* exception leaves run_load and the child exits with code 1
ChildSetupFails(i) ==
    /\ children[i + 1].pc = "setup"
    /\ children' = [children EXCEPT ![i + 1].pc = "exited", ![i + 1].exitcode = <<1>>]
    /\ UNCHANGED <<childFrame, schema, barrier>>

\* runner.py:104-115: setup has returned; the workers are made (fixed-count
\* mode asks the Sink for nothing more)
ChildSetupEnd(i) ==
    /\ children[i + 1].pc = "in_setup"
    /\ children' = [children EXCEPT ![i + 1].pc = "ready", ![i + 1].setup_done = TRUE]
    /\ schema' = IF skip_schema(args.processes) THEN schema
                 ELSE [active |-> schema.active \ {<<"child", i>>},
                       by |-> Append(schema.by, "child")]
    /\ UNCHANGED <<childFrame, barrier>>

\* runner.py:123-124: the child waits on the barrier, if it was given one
ChildArrive(i) ==
    /\ children[i + 1].pc = "ready"
    /\ IF barrier.parties > 0
       THEN /\ barrier' = Arrive(barrier, <<"child", i>>)
            /\ children' = [children EXCEPT ![i + 1].pc = "waiting"]
       ELSE /\ children' = [children EXCEPT ![i + 1].pc = "go"]
            /\ UNCHANGED barrier
    /\ UNCHANGED <<childFrame, schema>>

ChildPass(i) ==
    /\ children[i + 1].pc = "waiting"
    /\ barrier.released
    /\ children' = [children EXCEPT ![i + 1].pc = "go"]
    /\ UNCHANGED <<childFrame, schema, barrier>>

\* runner.py:126-155: the insert workers, the query workers and the progress
\* reporter thread are started
ChildStartThreads(i) ==
    /\ children[i + 1].pc = "go"
    /\ children' = [children EXCEPT ![i + 1].pc = "running", ![i + 1].threads = TRUE]
    /\ UNCHANGED <<childFrame, schema, barrier>>

\* runner.py:157-168: run_producer(..., max_records=total_records) raises
\* TypeError (see FixedRunProducer); the child exits with code 1
ChildProducerRaises(i) ==
    /\ children[i + 1].pc = "running"
    /\ children' = [children EXCEPT ![i + 1].pc = "exited", ![i + 1].exitcode = <<1>>]
    /\ UNCHANGED <<childFrame, schema, barrier>>

ChildNext(i) ==
    \/ ChildBegin(i)
    \/ ChildSetupBegin(i)
    \/ ChildSetupFails(i)
    \/ ChildSetupEnd(i)
    \/ ChildArrive(i)
    \/ ChildPass(i)
    \/ ChildStartThreads(i)
    \/ ChildProducerRaises(i)

OrchNext ==
    \/ (Validate /\ UNCHANGED <<producers, runVars>>)
    \/ (MaxCounterRaises /\ UNCHANGED <<producers, runVars>>)
    \/ (CtlNext /\ UNCHANGED <<producers, runVars>>)
    \/ (CreateBarrier /\ UNCHANGED <<producers, runVars>>)
    \/ (StartProc /\ UNCHANGED <<producers, runVars>>)
    \/ (CtlArrive /\ UNCHANGED <<producers, runVars>>)
    \/ (CtlStartProgress /\ UNCHANGED <<producers, runVars>>)
    \/ (CtlJoin /\ UNCHANGED <<producers, runVars>>)
    \/ \E i \in 0..(MaxProcesses - 1) :
          i < Len(children) /\ ChildNext(i) /\ UNCHANGED <<producers, runVars>>

\* The controller and its children.
OrchSpec == OrchInit /\ [][OrchNext]_vars

\* The same when the controller and every child process keep running.
OrchFairness ==
    /\ WF_vars(Validate /\ UNCHANGED <<producers, runVars>>)
    /\ WF_vars(MaxCounterRaises /\ UNCHANGED <<producers, runVars>>)
    /\ WF_vars(CtlNext /\ UNCHANGED <<producers, runVars>>)
    /\ WF_vars(CreateBarrier /\ UNCHANGED <<producers, runVars>>)
    /\ WF_vars(StartProc /\ UNCHANGED <<producers, runVars>>)
    /\ WF_vars(CtlArrive /\ UNCHANGED <<producers, runVars>>)
    /\ WF_vars(CtlStartProgress /\ UNCHANGED <<producers, runVars>>)
    /\ WF_vars(CtlJoin /\ UNCHANGED <<producers, runVars>>)
    /\ \A i \in 0..(MaxProcesses - 1) :
          WF_vars(i < Len(children) /\ ChildNext(i) /\ UNCHANGED <<producers, runVars>>)

OrchFairSpec == OrchSpec /\ OrchFairness

(***************************************************************************)
(* progress.py:114-165: the controller's aggregator thread, fed here by    *)
(* children of which only the snapshots they put and their end are kept.   *)
(* A latency sum is a number of time units; an average is kept as the      *)
(* fraction <<numerator, denominator>>.                                    *)
(***************************************************************************)

LastStatsAccumulates(last_stats, process_index, stats) ==
    [last_stats EXCEPT ![process_index + 1] = [f \in 1..6 |-> @[f] + stats[f]]]

\* progress.py:135-137: last_stats[process_index] = stats
last_stats_after(last_stats, process_index, stats) ==
    [last_stats EXCEPT ![process_index + 1] = stats]

\* progress.py:140-145: sum(s[f] for s in last_stats.values()), f counted from 1
FieldSum(last_stats, f) ==
    SumSeq([i \in 1..Len(last_stats) |-> last_stats[i][f]])

\* progress.py:156-159: (latency_sec / count * 1000.0) if count > 0 else 0.0
AvgMs(latency_sec, count) ==
    IF count > 0 THEN <<latency_sec * 1000, count>> ELSE <<0, 1>>

\* progress.py:140-165: the sums, the interval figures, the new prev_* values
\* and the call of _log_aggregated
Tick(a) ==
    LET total == FieldSum(a.last_stats, 1)
        originals == FieldSum(a.last_stats, 2)
        duplicates == FieldSum(a.last_stats, 3)
        total_insert_latency_sec == FieldSum(a.last_stats, 4)
        query_count == FieldSum(a.last_stats, 5)
        total_query_latency_sec == FieldSum(a.last_stats, 6)
        interval_total == total - a.prev[1]
        interval_originals == originals - a.prev[2]
        interval_duplicates == duplicates - a.prev[3]
        interval_insert_latency_sec == total_insert_latency_sec - a.prev[4]
        interval_q == query_count - a.prev[5]
        interval_query_latency_sec == total_query_latency_sec - a.prev[6]
    IN  [a EXCEPT
           !.pc = "wait",
           !.prev = <<total, originals, duplicates, total_insert_latency_sec,
                      query_count, total_query_latency_sec>>,
           !.printed =
              <<[interval |-> <<interval_total, interval_originals, interval_duplicates,
                                AvgMs(interval_insert_latency_sec, interval_total),
                                interval_q,
                                AvgMs(interval_query_latency_sec, interval_q)>>,
                 cumulative |-> <<total, originals, duplicates,
                                  AvgMs(total_insert_latency_sec, total),
                                  query_count,
                                  AvgMs(total_query_latency_sec, query_count)>>]>>]

aggFrame == <<ctlData, cpc, schema, children, barrier, failed, reporter, producers, runVars>>

\* progress.py:128-131: stop_event.wait(interval_sec) returns, because the
\* interval has passed or because the event was set; the loop is left when
\* the event is set
AggWake ==
    /\ agg.pc = "wait"
    /\ agg' = [agg EXCEPT !.pc = IF agg.stop THEN "returned" ELSE "drain"]
    /\ UNCHANGED <<aggFrame, progress_queue, snap_log>>

\* progress.py:133-137: get_nowait() returns a message
AggGet ==
    /\ agg.pc = "drain"
    /\ progress_queue # <<>>
    /\ LET msg == Head(progress_queue) IN
         /\ agg' = [agg EXCEPT !.last_stats = last_stats_after(@, msg[1], msg[2])]
         /\ snap_log' = [snap_log EXCEPT !.got = Append(@, msg)]
    /\ progress_queue' = Tail(progress_queue)
    /\ UNCHANGED aggFrame

\* progress.py:138-165: get_nowait() raises queue.Empty; the tick is computed
\* and logged
AggPrint ==
    /\ agg.pc = "drain"
    /\ progress_queue = <<>>
    /\ agg' = Tick(agg)
    /\ UNCHANGED <<aggFrame, progress_queue, snap_log>>

\* The snapshots the children of this specification may send.
SnapshotValues == {<<1, 1, 0, 2, 0, 0>>, <<3, 2, 1, 5, 4, 7>>}

AggInit ==
    /\ args \in [processes : 2..MaxProcesses]
    /\ cpc = "join"
    /\ max_counter = -1
    /\ base_start = 0
    /\ records_per_process_list = <<>>
    /\ patient_starts = <<>>
    /\ schema = [active |-> {}, by |-> <<"controller">>]
    /\ children = [k \in 1..args.processes |->
          [pc |-> "running", exitcode |-> <<>>, setup_done |-> TRUE, threads |-> TRUE,
           records |-> <<>>, rps |-> <<>>]]
    /\ barrier = [parties |-> BarrierParties(args.processes),
                  arrived |-> {<<"controller">>} \cup {<<"child", i>> : i \in 0..(args.processes - 1)},
                  released |-> TRUE]
    /\ failed = <<>>
    /\ progress_queue = <<>>
    /\ agg = AggStart(args.processes)
    /\ reporter = [pc |-> "unstarted"]
    /\ snap_log = [put |-> <<>>, got |-> <<>>]
    /\ producers = <<>>
    /\ RunIdle

\* progress.py:190, 198 and runner.py:211: progress_queue.put((process_index, stats))
ChildSendsSnapshot(i) ==
    /\ children[i + 1].pc = "running"
    /\ Len(snap_log.put) < MaxSnapshots
    /\ \E stats \in SnapshotValues :
         /\ progress_queue' = Append(progress_queue, <<i, stats>>)
         /\ snap_log' = [snap_log EXCEPT !.put = Append(@, <<i, stats>>)]
    /\ UNCHANGED <<ctlData, cpc, schema, children, barrier, failed, agg, reporter,
                   producers, runVars>>

\* main.py:57-61: run_load has returned and the child process ends
ChildExits(i) ==
    /\ children[i + 1].pc = "running"
    /\ children' = [children EXCEPT ![i + 1].pc = "exited", ![i + 1].exitcode = <<0>>]
    /\ UNCHANGED <<childFrame, schema, barrier, producers, runVars>>

AggNext ==
    \/ \E i \in 0..(MaxProcesses - 1) : i < args.processes /\ ChildSendsSnapshot(i)
    \/ \E i \in 0..(MaxProcesses - 1) : i < args.processes /\ ChildExits(i)
    \/ (CtlJoin /\ UNCHANGED <<producers, runVars>>)
    \/ AggWake
    \/ AggGet
    \/ AggPrint

\* The aggregator, the controller that stops it, and the children's snapshots.
AggSpec == AggInit /\ [][AggNext]_vars

(***************************************************************************)
(* runner.py:113-120, 170-196: duration mode.  Producer thread i starts at *)
(* patient_start_base + i * patient_start_stride.                          *)
(***************************************************************************)

\* runner.py:119
patient_start_stride == 10000000

\* main.py:91: the default --patient-count, and a pool of four million
PoolSizes == {1000, 4000000}

ProducerRpsNoRemainder(target_rps, producer_threads, i) ==
    target_rps \div producer_threads

\* runner.py:171-175: the rate of producer thread i
ProducerRps(target_rps, producer_threads, i) ==
    (target_rps \div producer_threads)
        + (IF i < target_rps % producer_threads THEN 1 ELSE 0)

\* runner.py:178
ProducerStart(patient_start_base, i) == patient_start_base + i * patient_start_stride

\* The ordinals of one whole pool, generate_bulk_patients(start, total): the
\* uniques are start .. start + n_unique - 1 and every duplicate copies one of
\* them (patient_generator.py:32-68); as <<first, last>>.
PoolOrdinals(start, total) == <<start, start + NUnique(total) - 1>>

StrideInit ==
    /\ CtlIdle
    /\ rl \in [mode : {"stride"},
                producer_threads : 2..MaxProducerThreads,
                target_rps : 1..MaxTargetRps,
                patient_count : PoolSizes,
                max_counter : -1..MaxCounter]
    /\ mpc = "setup"
    /\ sent = 0
    /\ pthreads = <<>>
    /\ insertion_queue = <<>>
    /\ unfinished_tasks = 0
    /\ query_queue = <<>>
    /\ inserted_shared = [total |-> 0, originals |-> 0, duplicates |-> 0]
    /\ queries_shared = 0
    /\ pool_free = 0
    /\ iw = <<>>
    /\ qw = <<>>
    /\ sink_rows = <<>>
    /\ looked_up = <<>>
    /\ get_clock = 0
    /\ now = 0

strideFrame == <<ctlVars, producers, rl, sent, insertion_queue, unfinished_tasks,
                 query_queue, inserted_shared, queries_shared, pool_free, iw, qw,
                 sink_rows, looked_up, get_clock, now>>

\* runner.py:117-118, 171-194: the producer threads are created and started;
\* a thread whose rate is 0 returns at once (runner.py:176-177)
StrideStartProducers ==
    /\ mpc = "setup"
    /\ LET patient_start_base == Max2(0, rl.max_counter + 1) IN
         pthreads' = [k \in 1..rl.producer_threads |->
             LET rps == ProducerRps(rl.target_rps, rl.producer_threads, k - 1) IN
             [rps |-> rps,
              state |-> IF rps <= 0 THEN "returned" ELSE "running",
              patient_start |-> ProducerStart(patient_start_base, k - 1),
              pools |-> 0,
              used |-> {}]]
    /\ mpc' = "join_producers"
    /\ UNCHANGED strideFrame

\* producer.py:54-60, patient_count times in a row from an empty pool: one
\* refill (producer.py:25-29) and the emission of every record of the pool.
StrideEmitPool(i) ==
    /\ mpc = "join_producers"
    /\ pthreads[i + 1].state = "running"
    /\ pthreads[i + 1].pools < MaxPools
    /\ LET t == pthreads[i + 1] IN
         pthreads' = [pthreads EXCEPT ![i + 1] =
             [t EXCEPT !.patient_start = t.patient_start + NUnique(rl.patient_count),
                       !.pools = t.pools + 1,
                       !.used = t.used \cup {PoolOrdinals(t.patient_start, rl.patient_count)}]]
    /\ UNCHANGED <<mpc, strideFrame>>

\* producer.py:54: duration_sec has elapsed; the producer returns (sentinels=0)
StrideProducerReturn(i) ==
    /\ mpc = "join_producers"
    /\ pthreads[i + 1].state = "running"
    /\ pthreads' = [pthreads EXCEPT ![i + 1].state = "returned"]
    /\ UNCHANGED <<mpc, strideFrame>>

\* runner.py:195-196: every producer thread is joined
StrideJoined ==
    /\ mpc = "join_producers"
    /\ \A k \in 1..Len(pthreads) : pthreads[k].state = "returned"
    /\ mpc' = "put_sentinels"
    /\ UNCHANGED <<pthreads, strideFrame>>

StrideNext ==
    \/ StrideStartProducers
    \/ \E i \in 0..(MaxProducerThreads - 1) :
          i < Len(pthreads) /\ StrideEmitPool(i)
    \/ \E i \in 0..(MaxProducerThreads - 1) :
          i < Len(pthreads) /\ StrideProducerReturn(i)
    \/ StrideJoined

\* The ordinals the producer threads of one duration-mode run use.
StrideSpec == StrideInit /\ [][StrideNext]_vars

(***************************************************************************)
(* main.py:42 and runner.py:170-187: the two splits of the target rate.    *)
(* Every child process computes its rate; a run_load call in duration mode *)
(* splits its target_rps over its producer threads.                        *)
(***************************************************************************)

RateInit ==
    /\ args \in [processes : 1..MaxProcesses,
                 rows_per_second : 1..MaxRowsPerSecond,
                 duration : {1}]
    /\ cpc = "join"
    /\ max_counter = -1
    /\ base_start = 0
    /\ records_per_process_list = RecordsPerProcessList(total_records_of(args), args.processes)
    /\ patient_starts = <<>>
    /\ schema = [active |-> {}, by |-> <<>>]
    /\ children = [k \in 1..args.processes |->
          [pc |-> "started", exitcode |-> <<>>, setup_done |-> FALSE, threads |-> FALSE,
           records |-> <<>>, rps |-> <<>>]]
    /\ barrier = [parties |-> 0, arrived |-> {}, released |-> FALSE]
    /\ failed = <<>>
    /\ progress_queue = <<>>
    /\ agg = [pc |-> "unstarted"]
    /\ reporter = [pc |-> "unstarted"]
    /\ snap_log = [put |-> <<>>, got |-> <<>>]
    /\ producers = <<>>
    /\ rl \in [mode : {"stride"},
                producer_threads : 1..MaxProducerThreads,
                target_rps : 0..MaxTargetRps,
                patient_count : {1000},
                max_counter : {-1}]
    /\ mpc = "setup"
    /\ sent = 0
    /\ pthreads = <<>>
    /\ insertion_queue = <<>>
    /\ unfinished_tasks = 0
    /\ query_queue = <<>>
    /\ inserted_shared = [total |-> 0, originals |-> 0, duplicates |-> 0]
    /\ queries_shared = 0
    /\ pool_free = 0
    /\ iw = <<>>
    /\ qw = <<>>
    /\ sink_rows = <<>>
    /\ looked_up = <<>>
    /\ get_clock = 0
    /\ now = 0

RateNext ==
    \/ \E i \in 0..(MaxProcesses - 1) :
          i < Len(children) /\ ChildBegin(i) /\ UNCHANGED <<producers, runVars>>
    \/ StrideNext

RateSpec == RateInit /\ [][RateNext]_vars

(***************************************************************************)
(* One run_load call: producers, the two queues, the insert workers, the   *)
(* query workers and the calling thread (runner.py, base_worker.py,        *)
(* postgres/worker.py, clickhouse/worker.py).  Time is abstracted: a       *)
(* producer may find its duration elapsed at any loop test, and a queue    *)
(* get that timed out may find batch_wait_sec elapsed or not.  The latency *)
(* sums (inserted_shared[3], queries_shared[1]) are not modelled.          *)
(***************************************************************************)

\* Python's None, as a value comparable with the records and tuples it can
\* stand in for; an optional integer is <<>> (None) or <<n>>.
None == [none |-> TRUE]
\* config.py:16-17: two values no record and no (mrn, insert_time) is equal to
INSERTION_SENTINEL == [sentinel |-> "INSERTION_SENTINEL"]
QUERY_SENTINEL == [sentinel |-> "QUERY_SENTINEL"]

\* The arguments of the modelled run_load calls.
RunWorkers == {1, 2}
RunBatchSizes == {1, 2}
RunTargetRps == {1, 2}
RunQueriesPerRecord == {0, 2}
RunProducerThreads == {1, 2}
RunTotalRecords == {<<>>, <<2>>}

RunArgs ==
    [mode : {"run"},
     workers : RunWorkers,
     batch_size : RunBatchSizes,
     target_rps : RunTargetRps,
     queries_per_record : RunQueriesPerRecord,
     producer_threads : RunProducerThreads,
     total_records : RunTotalRecords,
     patient_count : {RunPatientCount},
     max_counter : {-1},
     process_index : {<<>>},
     sink : {"backend"}]

\* runner.py:77
insertion_queue_max(r) ==
    Max2(Max2(r.workers * 8, r.batch_size * r.workers * 2), r.target_rps * 4)

\* runner.py:81
query_queue_max(r) ==
    Max2(Max2(r.workers * 4, r.batch_size * r.workers * 4), r.target_rps * 4)

\* runner.py:91
use_fixed_count == rl.total_records # <<>>

run_query_workers_always == TRUE

\* runner.py:111
run_query_workers == rl.queries_per_record > 0

\* runner.py:126: progress_queue is not None and process_index is not None
use_aggregated_progress == rl.process_index # <<>>

\* progress.py:186-190, runner.py:206-211: (*ins, q[0], q[1]).  The latency
\* sums, which are measured times, are not kept by the model of a run.
SnapshotOf(ins, q) == <<ins.total, ins.originals, ins.duplicates, 0, q, 0>>

\* progress.py:172-198: the reporter thread when it is started.  stop is the
\* run's progress_stop event, puts the number of snapshots it has put.
ReporterStart ==
    [pc |-> "wait", stop |-> FALSE,
     ins |-> [total |-> 0, originals |-> 0, duplicates |-> 0], q |-> 0, puts |-> 0]

\* producer.py:32: the record put on the queue.  src and seq identify the
\* tuple (which producer thread built it, and as its how-manieth record);
\* the payload is json.dumps(p), which holds the patient's MRN.  got_at is
\* set when a worker takes the record off the queue: its rank among the
\* records taken.
MakeRecord(patient, src, seq) ==
    [ord |-> patient.ord,
     is_original |-> patient.is_original,
     payload |-> [kind |-> "json", mrn |-> <<"MRN", patient.ord>>],
     src |-> src,
     seq |-> seq,
     got_at |-> 0]

\* The identity of a record, and of the LookupTask made from it.
RecordId(r) == <<r.src, r.seq>>

RunInit ==
    /\ CtlIdle
    /\ rl \in RunArgs
    /\ mpc = "setup"
    /\ sent = 0
    /\ pthreads = <<>>
    /\ insertion_queue = <<>>
    /\ unfinished_tasks = 0
    /\ query_queue = <<>>
    /\ inserted_shared = [total |-> 0, originals |-> 0, duplicates |-> 0]
    /\ queries_shared = 0
    /\ pool_free = 0
    /\ iw = <<>>
    /\ qw = <<>>
    /\ sink_rows = <<>>
    /\ looked_up = <<>>
    /\ get_clock = 0
    /\ now = 0

\* What no action of a run_load call changes, and the records of what the
\* Sink holds, which only the actions that write or look up change.
ctlFrame == <<ctlVars, producers, rl, now>>
\* The same without the reporter thread and the snapshot queue.
runCtlFrame == <<args, cpc, max_counter, base_start, records_per_process_list, patient_starts,
                 schema, children, barrier, failed, agg, producers, rl, now>>
ghostFrame == <<sink_rows, looked_up, get_clock>>

pool_size_insert_workers_only(num_workers) == num_workers

\* clickhouse/worker.py:103, postgres/worker.py:95: insert workers + query workers
pool_size(num_workers) == num_workers * 2

\* runner.py:100-155: the pool of 2 * workers connections (postgres/worker.py:95,
\* clickhouse/worker.py:105), the worker threads, then either the fixed-count
\* branch (runner.py:157) or the producer threads (runner.py:170-194)
Start ==
    /\ mpc = "setup"
    /\ pool_free' = pool_size(rl.workers)
    /\ iw' = [k \in 1..rl.workers |->
                 [pc |-> "get", accumulated |-> <<>>, n |-> 0, mrns |-> <<>>,
                  after |-> "loop", last_written |-> 0]]
    /\ qw' = IF run_query_workers
             THEN [k \in 1..rl.workers |-> [pc |-> "get", item |-> None]]
             ELSE <<>>
    /\ IF use_fixed_count
       THEN /\ mpc' = "run_producer"
            /\ pthreads' = <<>>
       ELSE /\ mpc' = "join_producers"
            /\ LET patient_start_base == Max2(0, rl.max_counter + 1) IN
                 pthreads' = [k \in 1..rl.producer_threads |->
                     LET rps == ProducerRps(rl.target_rps, rl.producer_threads, k - 1) IN
                     [rps |-> rps,
                      state |-> IF rps <= 0 THEN "returned" ELSE "running",
                      patient_start |-> ProducerStart(patient_start_base, k - 1),
                      patient_records |-> <<>>,
                      emitted |-> 0]]
    /\ reporter' = IF use_aggregated_progress THEN ReporterStart ELSE reporter
    /\ UNCHANGED <<ghostFrame, runCtlFrame, progress_queue, snap_log, sent, insertion_queue,
                   unfinished_tasks, query_queue, inserted_shared, queries_shared>>

\* runner.py:159-168: run_producer is called with max_records=total_records,
\* a keyword producer.py:36-44 does not declare: the call raises TypeError
\* before the producer's body runs, and run_load is left by the exception.
FixedRunProducer ==
    /\ mpc = "run_producer"
    /\ mpc' = "raised"
    /\ UNCHANGED <<ghostFrame, ctlFrame, sent, pthreads, insertion_queue, unfinished_tasks,
                   query_queue, inserted_shared, queries_shared, pool_free, iw, qw>>

TotalEmitted == SumSeq([k \in 1..Len(pthreads) |-> pthreads[k].emitted])

\* The records a modelled run may produce: more with a single insert worker
\* fed by a single producer, so that both queues can be filled to their
\* capacity (runner.py:77, 81), unless its reporter thread is modelled too.
RecordBudget(r) ==
    IF r.workers = 1 /\ r.producer_threads = 1 /\ r.process_index = <<>>
    THEN MaxRecords + ExtraRecordsOneWorker
    ELSE MaxRecords

\* producer.py:55-60: now >= next_put_at; the next record is put on the queue
\* (a blocking put: it waits while the queue is full)
ProducerPut(i) ==
    /\ mpc = "join_producers"
    /\ pthreads[i + 1].state = "running"
    /\ TotalEmitted < RecordBudget(rl)
    /\ Len(insertion_queue) < insertion_queue_max(rl)
    /\ LET t == pthreads[i + 1]
           r == next_record(t.patient_records, rl.patient_count, t.patient_start)
       IN  /\ pthreads' = [pthreads EXCEPT ![i + 1] =
                  [t EXCEPT !.patient_records = r.patient_records,
                            !.patient_start = r.patient_start,
                            !.emitted = t.emitted + 1]]
           /\ insertion_queue' = Append(insertion_queue, MakeRecord(r.record, i, t.emitted))
    /\ unfinished_tasks' = unfinished_tasks + 1
    /\ UNCHANGED <<ghostFrame, ctlFrame, mpc, sent, query_queue, inserted_shared, queries_shared,
                   pool_free, iw, qw>>

\* producer.py:54, 66: duration_sec has elapsed; with sentinels=0 the producer
\* puts nothing more and returns
ProducerReturn(i) ==
    /\ mpc = "join_producers"
    /\ pthreads[i + 1].state = "running"
    /\ pthreads' = [pthreads EXCEPT ![i + 1].state = "returned"]
    /\ UNCHANGED <<ghostFrame, ctlFrame, mpc, sent, insertion_queue, unfinished_tasks, query_queue,
                   inserted_shared, queries_shared, pool_free, iw, qw>>

\* runner.py:195-196: every producer thread is joined
JoinProducers ==
    /\ mpc = "join_producers"
    /\ \A k \in 1..Len(pthreads) : pthreads[k].state = "returned"
    /\ mpc' = "put_sentinels"
    /\ sent' = 0
    /\ UNCHANGED <<ghostFrame, ctlFrame, pthreads, insertion_queue, unfinished_tasks, query_queue,
                   inserted_shared, queries_shared, pool_free, iw, qw>>

\* runner.py:199: range(num_workers)
SentinelCount(num_workers) == num_workers

\* runner.py:199-200: one iteration of  for _ in range(num_workers): put(SENTINEL)
PutSentinel ==
    /\ mpc = "put_sentinels"
    /\ sent < SentinelCount(rl.workers)
    /\ Len(insertion_queue) < insertion_queue_max(rl)
    /\ insertion_queue' = Append(insertion_queue, INSERTION_SENTINEL)
    /\ unfinished_tasks' = unfinished_tasks + 1
    /\ sent' = sent + 1
    /\ UNCHANGED <<ghostFrame, ctlFrame, mpc, pthreads, query_queue, inserted_shared, queries_shared,
                   pool_free, iw, qw>>

\* runner.py:199-202: the loop is over; insertion_queue.join() follows
SentinelsDone ==
    /\ mpc = "put_sentinels"
    /\ sent = SentinelCount(rl.workers)
    /\ mpc' = "queue_join"
    /\ UNCHANGED <<ghostFrame, ctlFrame, sent, pthreads, insertion_queue, unfinished_tasks, query_queue,
                   inserted_shared, queries_shared, pool_free, iw, qw>>

\* runner.py:202-212: insertion_queue.join() returns once every item put has
\* been task_done(); progress_stop is set, with aggregated progress the
\* final snapshot is put on progress_queue, and the progress thread is
\* joined with a timeout of one second
QueueJoin ==
    /\ mpc = "queue_join"
    /\ unfinished_tasks = 0
    /\ mpc' = "join_insert"
    /\ IF use_aggregated_progress
       THEN LET msg == <<rl.process_index[1], SnapshotOf(inserted_shared, queries_shared)>> IN
            /\ reporter' = [reporter EXCEPT !.stop = TRUE]
            /\ progress_queue' = Append(progress_queue, msg)
            /\ snap_log' = [snap_log EXCEPT !.put = Append(@, msg)]
       ELSE UNCHANGED <<reporter, progress_queue, snap_log>>
    /\ UNCHANGED <<ghostFrame, runCtlFrame, sent, pthreads, insertion_queue, unfinished_tasks,
                   query_queue, inserted_shared, queries_shared, pool_free, iw, qw>>

\* runner.py:214-217: every insert worker thread is joined; join() returns
\* for a thread that has ended, whether run returned or raised
JoinInsert ==
    /\ mpc = "join_insert"
    /\ \A k \in 1..Len(iw) : iw[k].pc \in {"returned", "raised"}
    /\ mpc' = IF run_query_workers THEN "put_query_sentinels" ELSE "teardown"
    /\ sent' = 0
    /\ UNCHANGED <<ghostFrame, ctlFrame, pthreads, insertion_queue, unfinished_tasks, query_queue,
                   inserted_shared, queries_shared, pool_free, iw, qw>>

\* runner.py:218-219: one iteration of  for _ in range(num_workers): put(QUERY_SENTINEL)
PutQuerySentinel ==
    /\ mpc = "put_query_sentinels"
    /\ sent < rl.workers
    /\ Len(query_queue) < query_queue_max(rl)
    /\ query_queue' = Append(query_queue, QUERY_SENTINEL)
    /\ sent' = sent + 1
    /\ UNCHANGED <<ghostFrame, ctlFrame, mpc, pthreads, insertion_queue, unfinished_tasks,
                   inserted_shared, queries_shared, pool_free, iw, qw>>

\* runner.py:219-221: the loop is over; every query worker thread is joined
\* (join() returns for a thread that has ended, whether it returned or raised)
JoinQuery ==
    /\ mpc = "put_query_sentinels"
    /\ sent = rl.workers
    /\ \A k \in 1..Len(qw) : qw[k].pc \in {"returned", "raised"}
    /\ mpc' = "teardown"
    /\ UNCHANGED <<ghostFrame, ctlFrame, sent, pthreads, insertion_queue, unfinished_tasks, query_queue,
                   inserted_shared, queries_shared, pool_free, iw, qw>>

\* runner.py:223-248: the pool is closed, the summary printed; run_load returns
Teardown ==
    /\ mpc = "teardown"
    /\ mpc' = "done"
    /\ pool_free' = 0
    /\ UNCHANGED <<ghostFrame, ctlFrame, sent, pthreads, insertion_queue, unfinished_tasks, query_queue,
                   inserted_shared, queries_shared, iw, qw>>

(***************************************************************************)
(* base_worker.py: the insert worker.                                      *)
(***************************************************************************)

mrns_of_every_record(batch) ==
    [k \in 1..Len(batch) |->
        [mrn |-> batch[k].payload.mrn, src |-> batch[k].src, seq |-> batch[k].seq]]

\* base_worker.py:21-35: the MRNs of the records whose payload parses and
\* holds a non-empty MEDICAL_RECORD_NUMBER, in batch order.  Each is kept with
\* the record it was taken from.  An MRN is <<"MRN", ordinal>>, the empty
\* string <<>>, or <<"None">> when the payload has no such key.
RECURSIVE mrns_from_batch(_)
mrns_from_batch(batch) ==
    IF batch = <<>> THEN <<>>
    ELSE LET record == Head(batch)
             rest == mrns_from_batch(Tail(batch))
         IN  IF record.payload.kind # "json"
             THEN rest                           \* json.loads raised: skipped
             ELSE IF record.payload.mrn \in {<<>>, <<"None">>}
                  THEN rest                      \* missing or empty: skipped
                  ELSE <<[mrn |-> record.payload.mrn,
                          src |-> record.src, seq |-> record.seq]>> \o rest

\* postgres/backend.py:129-142, clickhouse/backend.py:188-203: the count the
\* Sink returns for a batch it wrote
insert_batch(rows) == Len(rows)

\* base_worker.py:70-72, 82: what self.insert_batch(conn, batch_for_db) can do.
\* <<n>> is a returned count, <<>> a raised exception.  The repository's
\* backends return len(rows) ("backend"), or raise when the database call
\* fails ("failing"); the abstract method promises only "number of rows
\* inserted", so a Sink in general may return any count or raise.
SinkResults(sink, rows) ==
    CASE sink = "backend" -> {<<insert_batch(rows)>>}
      [] sink = "failing" -> {<<insert_batch(rows)>>, <<>>}
      [] OTHER            -> {<<n>> : n \in 0..(Len(rows) + 1)} \cup {<<>>}

\* base_worker.py:80: the row handed to the Sink for a record, kept with the
\* record's identity
SinkRow(record) ==
    [src |-> record.src, seq |-> record.seq, payload |-> record.payload,
     is_original |-> record.is_original]

\* How often the Sink has been handed the record with this identity.
WrittenCount(id) ==
    BagSizeOver(sink_rows, {row \in DOMAIN sink_rows : <<row.src, row.seq>> = id})

n_originals_keyed_only(batch) ==
    Cardinality({k \in 1..Len(batch) :
                    /\ batch[k].is_original
                    /\ batch[k].payload.kind = "json"
                    /\ batch[k].payload.mrn \notin {<<>>, <<"None">>}})

\* base_worker.py:84-85
n_originals(batch) == Cardinality({k \in 1..Len(batch) : batch[k].is_original})

StatsAfterFlushAssigns(shared, n, batch) ==
    [total |-> n,
     originals |-> shared.originals + Cardinality({k \in 1..Len(batch) : batch[k].is_original}),
     duplicates |-> shared.duplicates
                       + Cardinality({k \in 1..Len(batch) : ~batch[k].is_original})]

StatsAfterFlushKeepsLastBatch(shared, n, batch) ==
    [total |-> n,
     originals |-> Cardinality({k \in 1..Len(batch) : batch[k].is_original}),
     duplicates |-> Cardinality({k \in 1..Len(batch) : ~batch[k].is_original})]

\* base_worker.py:86-90: the critical section under inserted_lock
StatsAfterFlush(shared, n, batch) ==
    [total |-> shared.total + n,
     originals |-> shared.originals + n_originals(batch),
     duplicates |-> shared.duplicates + (Len(batch) - n_originals(batch))]

FlushDueAbove(len, batch_size) == len > batch_size

\* base_worker.py:126: len(accumulated) >= self.batch_size
FlushDue(len, batch_size) == len >= batch_size

KeepsAccumulated(accumulated) == accumulated

\* base_worker.py:117, 129: accumulated = [] once _flush has returned
accumulated_after_flush(accumulated) == <<>>

workerFrame == <<ctlFrame, mpc, sent, pthreads>>

pc_after_sentinel_returns(accumulated) == "returned"

\* base_worker.py:121-123: if accumulated: self._flush(accumulated); return
pc_after_sentinel(accumulated) == IF accumulated # <<>> THEN "flush" ELSE "returned"

\* base_worker.py:111, 119-129: get() returned an item; task_done(); a
\* sentinel ends the loop after a flush of what is accumulated, a record is
\* appended and the batch flushed once it holds batch_size records
WorkerGet(w) ==
    /\ iw[w].pc = "get"
    /\ insertion_queue # <<>>
    /\ LET record == Head(insertion_queue)
           me == iw[w]
       IN  /\ insertion_queue' = Tail(insertion_queue)
           /\ unfinished_tasks' = unfinished_tasks - 1
           /\ IF record = INSERTION_SENTINEL
              THEN iw' = [iw EXCEPT ![w] =
                       [me EXCEPT !.pc = pc_after_sentinel(me.accumulated),
                                  !.after = "return"]]
              ELSE LET acc == Append(me.accumulated,
                                     [record EXCEPT !.got_at = get_clock + 1]) IN
                   iw' = [iw EXCEPT ![w] =
                       [me EXCEPT !.accumulated = acc,
                                  !.pc = IF FlushDue(Len(acc), rl.batch_size)
                                         THEN "flush" ELSE "get",
                                  !.after = "loop"]]
           /\ get_clock' = IF record = INSERTION_SENTINEL THEN get_clock ELSE get_clock + 1
    /\ UNCHANGED <<workerFrame, query_queue, inserted_shared, queries_shared, pool_free, qw,
                   sink_rows, looked_up>>

\* base_worker.py:112-118: get() timed out on an empty queue; the accumulated
\* records are flushed when batch_wait_sec has elapsed since batch_start
WorkerTimeout(w) ==
    /\ iw[w].pc = "get"
    /\ insertion_queue = <<>>
    /\ iw[w].accumulated # <<>>
    /\ iw' = [iw EXCEPT ![w].pc = "flush", ![w].after = "loop"]
    /\ UNCHANGED <<ghostFrame, workerFrame, insertion_queue, unfinished_tasks, query_queue,
                   inserted_shared, queries_shared, pool_free, qw>>

pool_after_failed_flush_leaks(free) == free - 1

\* base_worker.py:78, 95-96: the connection taken by get_connection is given
\* back by the finally clause before the exception leaves _flush
pool_after_failed_flush(free) == (free - 1) + 1

\* base_worker.py:76-83, 95-96: _flush takes a connection and hands the batch
\* to the Sink.  When the Sink raises, the finally clause gives the connection
\* back and the exception leaves _flush and run: the worker thread ends.
WorkerInsert(w) ==
    /\ iw[w].pc = "flush"
    /\ pool_free > 0
    /\ \E result \in SinkResults(rl.sink, iw[w].accumulated) :
         IF result = <<>>
         THEN /\ iw' = [iw EXCEPT ![w].pc = "raised"]
              /\ pool_free' = pool_after_failed_flush(pool_free)
              /\ UNCHANGED sink_rows
         ELSE /\ pool_free' = pool_free - 1
              /\ iw' = [iw EXCEPT ![w].pc = "stats",
                                  ![w].n = result[1],
                                  ![w].last_written =
                                      iw[w].accumulated[Len(iw[w].accumulated)].got_at]
              /\ sink_rows' = BagAddAll(sink_rows,
                     [k \in 1..Len(iw[w].accumulated) |-> SinkRow(iw[w].accumulated[k])])
    /\ UNCHANGED <<workerFrame, insertion_queue, unfinished_tasks, query_queue,
                   inserted_shared, queries_shared, qw, looked_up, get_clock>>

\* base_worker.py:84-92: the counters are updated under inserted_lock; with
\* queries_per_record > 0 the MRNs of the batch are extracted
WorkerStats(w) ==
    /\ iw[w].pc = "stats"
    /\ inserted_shared' = StatsAfterFlush(inserted_shared, iw[w].n, iw[w].accumulated)
    /\ iw' = [iw EXCEPT ![w].pc = "push",
                        ![w].mrns = IF rl.queries_per_record > 0
                                    THEN mrns_from_batch(iw[w].accumulated)
                                    ELSE <<>>]
    /\ UNCHANGED <<ghostFrame, workerFrame, insertion_queue, unfinished_tasks, query_queue,
                   queries_shared, pool_free, qw>>

\* base_worker.py:93-94: one (mrn, insert_time) is put on the query queue (a
\* blocking put)
WorkerPush(w) ==
    /\ iw[w].pc = "push"
    /\ iw[w].mrns # <<>>
    /\ Len(query_queue) < query_queue_max(rl)
    /\ query_queue' = Append(query_queue, Head(iw[w].mrns))
    /\ iw' = [iw EXCEPT ![w].mrns = Tail(iw[w].mrns)]
    /\ UNCHANGED <<ghostFrame, workerFrame, insertion_queue, unfinished_tasks, inserted_shared,
                   queries_shared, pool_free, qw>>

\* base_worker.py:95-96, 116-117, 122-123, 128-129: the connection is released
\* and _flush returns; the worker starts a new batch, or returns after the
\* flush that followed its sentinel
WorkerRelease(w) ==
    /\ iw[w].pc = "push"
    /\ iw[w].mrns = <<>>
    /\ pool_free' = pool_free + 1
    /\ iw' = [iw EXCEPT ![w].accumulated = accumulated_after_flush(iw[w].accumulated),
                        ![w].n = 0,
                        ![w].pc = IF iw[w].after = "return" THEN "returned" ELSE "get"]
    /\ UNCHANGED <<ghostFrame, workerFrame, insertion_queue, unfinished_tasks, query_queue,
                   inserted_shared, queries_shared, qw>>

(***************************************************************************)
(* postgres/worker.py:21-58, clickhouse/worker.py:29-66: the query worker. *)
(***************************************************************************)

\* postgres/worker.py:31-35: get() returned an item; a sentinel ends the loop
QueryGet(q) ==
    /\ qw[q].pc = "get"
    /\ query_queue # <<>>
    /\ query_queue' = Tail(query_queue)
    /\ LET item == Head(query_queue) IN
         qw' = [qw EXCEPT ![q] =
                  IF item = QUERY_SENTINEL
                  THEN [qw[q] EXCEPT !.pc = "returned"]
                  ELSE [qw[q] EXCEPT !.pc = "query", !.item = item]]
    /\ UNCHANGED <<ghostFrame, workerFrame, insertion_queue, unfinished_tasks, inserted_shared,
                   queries_shared, pool_free, iw>>

QueriesAfterItemAddsOne(count, queries_per_record) == count + 1

\* postgres/worker.py:53-55: the count added under queries_lock for one item
QueriesAfterItem(count, queries_per_record) == count + queries_per_record

\* postgres/worker.py:41-58: a connection is taken, queries_per_record
\* lookups are run (a result of other than one row is logged), the count is
\* added under queries_lock, the connection is put back
QueryRun(q) ==
    /\ qw[q].pc = "query"
    /\ pool_free > 0
    /\ queries_shared' = QueriesAfterItem(queries_shared, rl.queries_per_record)
    /\ qw' = [qw EXCEPT ![q].pc = "get", ![q].item = None]
    /\ looked_up' = BagAddAll(looked_up, <<RecordId(qw[q].item)>>)
    /\ UNCHANGED <<workerFrame, insertion_queue, unfinished_tasks, query_queue,
                   inserted_shared, pool_free, iw, sink_rows, get_clock>>

RunNext ==
    \/ Start
    \/ FixedRunProducer
    \/ \E i \in 0..1 : i < Len(pthreads) /\ ProducerPut(i)
    \/ \E i \in 0..1 : i < Len(pthreads) /\ ProducerReturn(i)
    \/ JoinProducers
    \/ PutSentinel
    \/ SentinelsDone
    \/ QueueJoin
    \/ JoinInsert
    \/ PutQuerySentinel
    \/ JoinQuery
    \/ Teardown
    \/ \E w \in 1..2 : w <= Len(iw) /\ WorkerGet(w)
    \/ \E w \in 1..2 : w <= Len(iw) /\ WorkerTimeout(w)
    \/ \E w \in 1..2 : w <= Len(iw) /\ WorkerInsert(w)
    \/ \E w \in 1..2 : w <= Len(iw) /\ WorkerStats(w)
    \/ \E w \in 1..2 : w <= Len(iw) /\ WorkerPush(w)
    \/ \E w \in 1..2 : w <= Len(iw) /\ WorkerRelease(w)
    \/ \E q \in 1..2 : q <= Len(qw) /\ QueryGet(q)
    \/ \E q \in 1..2 : q <= Len(qw) /\ QueryRun(q)

\* One run_load call with the repository's backends as the Sink.
RunSpec == RunInit /\ [][RunNext]_vars

\* The same under fair scheduling: every thread that can take a step
\* eventually takes one, a thread waiting to put on a full queue or to get
\* from an empty one is eventually served once the queue has room or an item
\* again and again, and a producer's duration eventually elapses.
RunFairness ==
    /\ WF_vars(Start) /\ WF_vars(FixedRunProducer) /\ WF_vars(JoinProducers)
    /\ SF_vars(PutSentinel) /\ WF_vars(SentinelsDone) /\ WF_vars(QueueJoin)
    /\ WF_vars(JoinInsert) /\ SF_vars(PutQuerySentinel) /\ WF_vars(JoinQuery)
    /\ WF_vars(Teardown)
    /\ \A i \in 0..1 : WF_vars(i < Len(pthreads) /\ ProducerReturn(i))
    /\ \A w \in 1..2 :
         /\ SF_vars(w <= Len(iw) /\ WorkerGet(w))
         /\ WF_vars(w <= Len(iw) /\ WorkerTimeout(w))
         /\ WF_vars(w <= Len(iw) /\ WorkerInsert(w))
         /\ WF_vars(w <= Len(iw) /\ WorkerStats(w))
         /\ SF_vars(w <= Len(iw) /\ WorkerPush(w))
         /\ WF_vars(w <= Len(iw) /\ WorkerRelease(w))
    /\ \A q \in 1..2 :
         /\ SF_vars(q <= Len(qw) /\ QueryGet(q))
         /\ WF_vars(q <= Len(qw) /\ QueryRun(q))

RunFairSpec == RunSpec /\ RunFairness

(***************************************************************************)
(* One run_load call whose Sink may raise on any insert_batch call.  The   *)
(* exception leaves BaseInsertWorker.run (base_worker.py:102-129 catches   *)
(* only queue.Empty), so the worker thread ends without taking a sentinel; *)
(* no other thread is told.  A producer is modelled as able to return      *)
(* whenever its duration has elapsed, also with the queue full.            *)
(***************************************************************************)
FailArgs ==
    [mode : {"run"},
     workers : RunWorkers,
     batch_size : RunBatchSizes,
     target_rps : {1},
     queries_per_record : RunQueriesPerRecord,
     producer_threads : {1},
     total_records : RunTotalRecords,
     patient_count : {RunPatientCount},
     max_counter : {-1},
     process_index : {<<>>},
     sink : {"failing"}]

FailInit ==
    /\ CtlIdle
    /\ rl \in FailArgs
    /\ mpc = "setup"
    /\ sent = 0
    /\ pthreads = <<>>
    /\ insertion_queue = <<>>
    /\ unfinished_tasks = 0
    /\ query_queue = <<>>
    /\ inserted_shared = [total |-> 0, originals |-> 0, duplicates |-> 0]
    /\ queries_shared = 0
    /\ pool_free = 0
    /\ iw = <<>>
    /\ qw = <<>>
    /\ sink_rows = <<>>
    /\ looked_up = <<>>
    /\ get_clock = 0
    /\ now = 0

FailSpec == FailInit /\ [][RunNext]_vars

FailFairSpec == FailSpec /\ RunFairness

(***************************************************************************)
(* runner.py:126-155, 202-212 and progress.py:172-198: one run_load call   *)
(* of child process 0 of two, with its reporter thread and the controller's*)
(* aggregator (progress.py:114-165).  The other child sends nothing.       *)
(***************************************************************************)

ReportArgs ==
    [mode : {"run"},
     workers : {1},
     batch_size : RunBatchSizes,
     target_rps : {1},
     queries_per_record : {2},
     producer_threads : {1},
     total_records : RunTotalRecords,
     patient_count : {RunPatientCount},
     max_counter : {-1},
     process_index : {<<0>>},
     sink : {"backend"}]

ReportInit ==
    /\ args = [processes |-> 2]
    /\ cpc = "join"
    /\ max_counter = -1
    /\ base_start = 0
    /\ records_per_process_list = <<>>
    /\ patient_starts = <<>>
    /\ schema = [active |-> {}, by |-> <<"controller">>]
    /\ children = [k \in 1..2 |->
          [pc |-> "running", exitcode |-> <<>>, setup_done |-> TRUE, threads |-> FALSE,
           records |-> <<>>, rps |-> <<>>]]
    /\ barrier = [parties |-> BarrierParties(2),
                  arrived |-> {<<"controller">>, <<"child", 0>>, <<"child", 1>>},
                  released |-> TRUE]
    /\ failed = <<>>
    /\ progress_queue = <<>>
    /\ agg = AggStart(2)
    /\ reporter = [pc |-> "unstarted"]
    /\ snap_log = [put |-> <<>>, got |-> <<>>]
    /\ producers = <<>>
    /\ rl \in ReportArgs
    /\ mpc = "setup"
    /\ sent = 0
    /\ pthreads = <<>>
    /\ insertion_queue = <<>>
    /\ unfinished_tasks = 0
    /\ query_queue = <<>>
    /\ inserted_shared = [total |-> 0, originals |-> 0, duplicates |-> 0]
    /\ queries_shared = 0
    /\ pool_free = 0
    /\ iw = <<>>
    /\ qw = <<>>
    /\ sink_rows = <<>>
    /\ looked_up = <<>>
    /\ get_clock = 0
    /\ now = 0

\* The reporter is a daemon thread of the child process: it runs as long as
\* run_load has not been left.
ReporterAlive == reporter.pc # "unstarted" /\ mpc \notin {"done", "raised"}

reporterFrame == <<args, cpc, max_counter, base_start, records_per_process_list, patient_starts,
                   schema, children, barrier, failed, agg, producers, runVars>>

\* progress.py:183-185, 191-193: progress_stop.wait(...) returns False: the
\* interval has passed and the event is not set
ReporterWake ==
    /\ ReporterAlive
    /\ reporter.pc = "wait"
    /\ ~reporter.stop
    /\ reporter.puts < MaxReports
    /\ reporter' = [reporter EXCEPT !.pc = "read_ins"]
    /\ UNCHANGED <<reporterFrame, progress_queue, snap_log>>

\* progress.py:183-185, 191-193: the event is set; the thread returns
ReporterStop ==
    /\ ReporterAlive
    /\ reporter.pc = "wait"
    /\ reporter.stop
    /\ reporter' = [reporter EXCEPT !.pc = "returned"]
    /\ UNCHANGED <<reporterFrame, progress_queue, snap_log>>

\* progress.py:186-187, 194-195: with inserted_lock: ins = (...)
ReporterReadInserted ==
    /\ ReporterAlive
    /\ reporter.pc = "read_ins"
    /\ reporter' = [reporter EXCEPT !.pc = "read_q", !.ins = inserted_shared]
    /\ UNCHANGED <<reporterFrame, progress_queue, snap_log>>

\* progress.py:188-189, 196-197: with queries_lock: q = (...)
ReporterReadQueries ==
    /\ ReporterAlive
    /\ reporter.pc = "read_q"
    /\ reporter' = [reporter EXCEPT !.pc = "put", !.q = queries_shared]
    /\ UNCHANGED <<reporterFrame, progress_queue, snap_log>>

\* progress.py:190, 198: progress_queue.put((process_index, (*ins, q[0], q[1])))
ReporterPut ==
    /\ ReporterAlive
    /\ reporter.pc = "put"
    /\ LET msg == <<rl.process_index[1], SnapshotOf(reporter.ins, reporter.q)>> IN
         /\ progress_queue' = Append(progress_queue, msg)
         /\ snap_log' = [snap_log EXCEPT !.put = Append(@, msg)]
    /\ reporter' = [reporter EXCEPT !.pc = "wait", !.puts = @ + 1,
                                    !.ins = ReporterStart.ins, !.q = 0]
    /\ UNCHANGED reporterFrame

ReportNext ==
    \/ RunNext
    \/ ReporterWake
    \/ ReporterStop
    \/ ReporterReadInserted
    \/ ReporterReadQueries
    \/ ReporterPut
    \/ AggWake
    \/ AggGet
    \/ AggPrint

\* One child's run_load call with its reporter thread, and the aggregator.
ReportSpec == ReportInit /\ [][ReportNext]_vars

(***************************************************************************)
(* base_worker.py:21-35, 74-96: _flush on its own.  Two insert workers    *)
(* each flush one batch at the same time.  The batches hold any mix of    *)
(* original and duplicate records whose payload is JSON with a key, JSON   *)
(* with an empty key, JSON without the key, or not JSON at all, and the    *)
(* Sink may return any count or raise.  No query worker runs, so the query *)
(* queue keeps every LookupTask that was pushed.                           *)
(***************************************************************************)

PayloadKinds == {"keyed", "empty_key", "no_key", "not_json"}

\* The payload string of a record, as _mrns_from_batch sees it:
\* json.loads(r[1]) succeeds or raises, and .get("MEDICAL_RECORD_NUMBER") is
\* a non-empty string, the empty string or None.
PayloadOf(kind, ord) ==
    CASE kind = "keyed"     -> [kind |-> "json", mrn |-> <<"MRN", ord>>]
      [] kind = "empty_key" -> [kind |-> "json", mrn |-> <<>>]
      [] kind = "no_key"    -> [kind |-> "json", mrn |-> <<"None">>]
      [] kind = "not_json"  -> [kind |-> "not_json", mrn |-> <<"None">>]

\* The batches of 1..maxlen records worker w (1-based) may hold.
FlushBatches(w, maxlen) ==
    UNION {
        { [k \in 1..n |->
              [ord |-> k - 1,
               is_original |-> shape[k][2],
               payload |-> PayloadOf(shape[k][1], k - 1),
               src |-> w - 1,
               seq |-> k - 1,
               got_at |-> k]] :
          shape \in [1..n -> PayloadKinds \X BOOLEAN] } :
        n \in 1..maxlen }

FlushArgs ==
    [mode : {"flush"},
     workers : {2},
     batch_size : {MaxBatch},
     target_rps : {1},
     queries_per_record : {0, 2},
     sink : {"any", "backend"}]

FlushInit ==
    /\ CtlIdle
    /\ rl \in FlushArgs
    /\ mpc = "flushing"
    /\ sent = 0
    /\ pthreads = <<>>
    /\ insertion_queue = <<>>
    /\ unfinished_tasks = 0
    /\ query_queue = <<>>
    /\ inserted_shared = [total |-> 0, originals |-> 0, duplicates |-> 0]
    /\ queries_shared = 0
    /\ pool_free = pool_size(rl.workers)
    /\ \E b1 \in FlushBatches(1, MaxBatch), b2 \in FlushBatches(2, 1) :
         iw = [w \in 1..2 |->
                 [pc |-> "flush", accumulated |-> IF w = 1 THEN b1 ELSE b2, n |-> 0,
                  mrns |-> <<>>, after |-> "return", last_written |-> 0]]
    /\ qw = <<>>
    /\ sink_rows = <<>>
    /\ looked_up = <<>>
    /\ get_clock = 0
    /\ now = 0

FlushNext ==
    \/ \E w \in 1..2 : WorkerInsert(w)
    \/ \E w \in 1..2 : WorkerStats(w)
    \/ \E w \in 1..2 : WorkerPush(w)
    \/ \E w \in 1..2 : WorkerRelease(w)

FlushSpec == FlushInit /\ [][FlushNext]_vars

(***************************************************************************)
(* The connection pool shared by the insert and the query workers of one   *)
(* run_load call.  The query worker is taken step by step: it takes a      *)
(* connection (clickhouse/worker.py:49 blocks on the empty client queue),  *)
(* runs its lookups and gives the connection back in the finally clause    *)
(* (clickhouse/worker.py:64-65, postgres/worker.py:56-57), also when a     *)
(* lookup raises.  The Sink may raise on any insert_batch call.            *)
(***************************************************************************)

\* clickhouse/worker.py:49, postgres/worker.py:41: conn = client_queue.get()
PoolQueryGetconn(q) ==
    /\ qw[q].pc = "query"
    /\ pool_free > 0
    /\ pool_free' = pool_free - 1
    /\ qw' = [qw EXCEPT ![q].pc = "lookup"]
    /\ UNCHANGED <<ghostFrame, workerFrame, insertion_queue, unfinished_tasks, query_queue,
                   inserted_shared, queries_shared, iw>>

\* clickhouse/worker.py:50-66: the lookups are run, the count is added under
\* queries_lock, the finally clause gives the connection back, task_done()
PoolQueryPutconn(q) ==
    /\ qw[q].pc = "lookup"
    /\ queries_shared' = QueriesAfterItem(queries_shared, rl.queries_per_record)
    /\ pool_free' = pool_free + 1
    /\ qw' = [qw EXCEPT ![q].pc = "get", ![q].item = None]
    /\ looked_up' = BagAddAll(looked_up, <<RecordId(qw[q].item)>>)
    /\ UNCHANGED <<workerFrame, insertion_queue, unfinished_tasks, query_queue,
                   inserted_shared, iw, sink_rows, get_clock>>

\* clickhouse/worker.py:54, 64-65: query_by_primary_key raises; the finally
\* clause gives the connection back and the exception ends the thread
PoolQueryRaises(q) ==
    /\ qw[q].pc = "lookup"
    /\ rl.sink = "failing"
    /\ pool_free' = pool_free + 1
    /\ qw' = [qw EXCEPT ![q].pc = "raised"]
    /\ UNCHANGED <<ghostFrame, workerFrame, insertion_queue, unfinished_tasks, query_queue,
                   inserted_shared, queries_shared, iw>>

PoolNext ==
    \/ Start
    \/ FixedRunProducer
    \/ \E i \in 0..1 : i < Len(pthreads) /\ ProducerPut(i)
    \/ \E i \in 0..1 : i < Len(pthreads) /\ ProducerReturn(i)
    \/ JoinProducers
    \/ PutSentinel
    \/ SentinelsDone
    \/ QueueJoin
    \/ JoinInsert
    \/ PutQuerySentinel
    \/ JoinQuery
    \/ Teardown
    \/ \E w \in 1..2 : w <= Len(iw) /\ WorkerGet(w)
    \/ \E w \in 1..2 : w <= Len(iw) /\ WorkerTimeout(w)
    \/ \E w \in 1..2 : w <= Len(iw) /\ WorkerInsert(w)
    \/ \E w \in 1..2 : w <= Len(iw) /\ WorkerStats(w)
    \/ \E w \in 1..2 : w <= Len(iw) /\ WorkerPush(w)
    \/ \E w \in 1..2 : w <= Len(iw) /\ WorkerRelease(w)
    \/ \E q \in 1..2 : q <= Len(qw) /\ QueryGet(q)
    \/ \E q \in 1..2 : q <= Len(qw) /\ PoolQueryGetconn(q)
    \/ \E q \in 1..2 : q <= Len(qw) /\ PoolQueryPutconn(q)
    \/ \E q \in 1..2 : q <= Len(qw) /\ PoolQueryRaises(q)

\* One run_load call whose database calls may fail, the query workers
\* taken step by step.
PoolSpec == FailInit /\ [][PoolNext]_vars

(***************************************************************************)
(* postgres/worker.py:21-58, clickhouse/worker.py:29-66: the query worker  *)
(* step by step and in time.  The run is at runner.py:217: every insert    *)
(* worker has returned, the LookupTasks they pushed at insert_time are on  *)
(* the query queue, and the main thread puts the query sentinels.  Time is *)
(* counted in ticks; a thread may take any time between two steps, and    *)
(* time.sleep(x) returns after x or later.  A point lookup returns 0, 1 or *)
(* more rows, as the table holds them.                                     *)
(***************************************************************************)
MaxTasks == 2
MaxNow == 3

\* postgres/worker.py:50: len(rows): no row, the one row, more than one
RowCounts == {0, 1, 2}

\* main.py:112-117, 187: --query-delay, here in ticks
QueryDelays == {0, 1}

\* base_worker.py:92-94: the (mrn, insert_time) put for a record, kept with
\* the record's identity
LookupTask(k, insert_time) ==
    [mrn |-> <<"MRN", k>>, src |-> 0, seq |-> k, insert_time |-> insert_time]

QueryArgs ==
    [mode : {"query"},
     workers : 1..2,
     batch_size : {1},
     target_rps : {1},
     queries_per_record : 1..2,
     query_delay_sec : QueryDelays,
     sink : {"backend"}]

QueryInit ==
    /\ CtlIdle
    /\ rl \in QueryArgs
    /\ mpc = "put_query_sentinels"
    /\ sent = 0
    /\ pthreads = <<>>
    /\ insertion_queue = <<>>
    /\ unfinished_tasks = 0
    /\ \E n \in 1..MaxTasks : \E times \in [1..n -> 0..1] :
         /\ query_queue = [k \in 1..n |-> LookupTask(k - 1, times[k])]
         /\ inserted_shared = [total |-> n, originals |-> n, duplicates |-> 0]
         /\ sink_rows = BagAddAll(<<>>, [k \in 1..n |->
                            SinkRow(MakeRecord(UniquePatient(0, k - 1), 0, k - 1))])
    /\ queries_shared = 0
    /\ pool_free = pool_size(rl.workers)
    /\ iw = [k \in 1..rl.workers |->
                [pc |-> "returned", accumulated |-> <<>>, n |-> 0, mrns |-> <<>>,
                 after |-> "return", last_written |-> 0]]
    /\ qw = [k \in 1..rl.workers |->
                [pc |-> "get", item |-> None, got_at |-> 0, done |-> 0, rows |-> 1,
                 logged_error |-> FALSE]]
    /\ looked_up = <<>>
    /\ get_clock = 0
    /\ now = 1

queryFrame == <<ctlVars, producers, rl, mpc, sent, pthreads, insertion_queue, unfinished_tasks,
                inserted_shared, iw, sink_rows, looked_up, get_clock>>

\* postgres/worker.py:31-35: get() returned an item at time now; a sentinel
\* ends the loop
QueryWorkerGet(q) ==
    /\ qw[q].pc = "get"
    /\ query_queue # <<>>
    /\ query_queue' = Tail(query_queue)
    /\ LET item == Head(query_queue) IN
         qw' = [qw EXCEPT ![q] =
                  IF item = QUERY_SENTINEL
                  THEN [qw[q] EXCEPT !.pc = "returned"]
                  ELSE [qw[q] EXCEPT !.pc = "delay", !.item = item, !.got_at = now]]
    /\ UNCHANGED <<queryFrame, queries_shared, pool_free, now>>

\* postgres/worker.py:37
deadline(insert_time, query_delay_sec) == insert_time + query_delay_sec

sleep_sec_none(deadline_, time) == 0

\* postgres/worker.py:38: deadline - time.time()
sleep_sec(deadline_, time) == deadline_ - time

\* postgres/worker.py:36-40: with a delay configured, time.time() is read and
\* the worker sleeps if the deadline is still ahead
QueryWorkerDelay(q) ==
    /\ qw[q].pc = "delay"
    /\ qw' = [qw EXCEPT ![q].pc =
                IF /\ rl.query_delay_sec > 0
                   /\ sleep_sec(deadline(qw[q].item.insert_time, rl.query_delay_sec), now) > 0
                THEN "sleep" ELSE "getconn"]
    /\ UNCHANGED <<queryFrame, query_queue, queries_shared, pool_free, now>>

\* postgres/worker.py:40: time.sleep(sleep_sec) returns, sleep_sec or more
\* after the time that was read
QueryWorkerWake(q) ==
    /\ qw[q].pc = "sleep"
    /\ now >= deadline(qw[q].item.insert_time, rl.query_delay_sec)
    /\ qw' = [qw EXCEPT ![q].pc = "getconn"]
    /\ UNCHANGED <<queryFrame, query_queue, queries_shared, pool_free, now>>

\* postgres/worker.py:41-43: pool.getconn()
QueryWorkerGetconn(q) ==
    /\ qw[q].pc = "getconn"
    /\ pool_free > 0
    /\ pool_free' = pool_free - 1
    /\ qw' = [qw EXCEPT ![q].pc = "lookup", ![q].done = 0, ![q].rows = 1]
    /\ UNCHANGED <<queryFrame, query_queue, queries_shared, now>>

lookups_left_none_after_anomaly(queries_per_record, done, rows) ==
    IF rows # 1 THEN 0 ELSE queries_per_record - done

\* postgres/worker.py:44-52: for _ in range(queries_per_record): the
\* iterations left after `done` lookups, whatever the last one returned
lookups_left(queries_per_record, done, rows) == queries_per_record - done

\* postgres/worker.py:45-52: one query_by_primary_key call, issued at time
\* now; a result of other than one row is logged as an error.  done counts
\* the lookups made for the item, rows is what the last one returned.
\* logged_error: the worker has logged such an error.
QueryWorkerLookup(q) ==
    /\ qw[q].pc = "lookup"
    /\ lookups_left(rl.queries_per_record, qw[q].done, qw[q].rows) > 0
    /\ \E rows \in RowCounts :
         qw' = [qw EXCEPT ![q].done = @ + 1, ![q].rows = rows,
                          ![q].logged_error = @ \/ rows # 1]
    /\ UNCHANGED <<queryFrame, query_queue, queries_shared, pool_free, now>>

\* postgres/worker.py:53-55: the loop is over; the count is added under
\* queries_lock
QueryWorkerCount(q) ==
    /\ qw[q].pc = "lookup"
    /\ lookups_left(rl.queries_per_record, qw[q].done, qw[q].rows) <= 0
    /\ queries_shared' = QueriesAfterItem(queries_shared, rl.queries_per_record)
    /\ qw' = [qw EXCEPT ![q].pc = "putconn"]
    /\ UNCHANGED <<queryFrame, query_queue, pool_free, now>>

\* postgres/worker.py:56-58: finally: pool.putconn(conn); task_done()
QueryWorkerPutconn(q) ==
    /\ qw[q].pc = "putconn"
    /\ pool_free' = pool_free + 1
    /\ qw' = [qw EXCEPT ![q].pc = "get", ![q].item = None, ![q].got_at = 0,
                        ![q].done = 0, ![q].rows = 1]
    /\ UNCHANGED <<queryFrame, query_queue, queries_shared, now>>

\* Time passes.
QueryTick ==
    /\ now < MaxNow
    /\ now' = now + 1
    /\ UNCHANGED <<queryFrame, query_queue, queries_shared, pool_free, qw>>

QueryNext ==
    \/ PutQuerySentinel
    \/ JoinQuery
    \/ Teardown
    \/ QueryTick
    \/ \E q \in 1..2 : q <= Len(qw) /\ QueryWorkerGet(q)
    \/ \E q \in 1..2 : q <= Len(qw) /\ QueryWorkerDelay(q)
    \/ \E q \in 1..2 : q <= Len(qw) /\ QueryWorkerWake(q)
    \/ \E q \in 1..2 : q <= Len(qw) /\ QueryWorkerGetconn(q)
    \/ \E q \in 1..2 : q <= Len(qw) /\ QueryWorkerLookup(q)
    \/ \E q \in 1..2 : q <= Len(qw) /\ QueryWorkerCount(q)
    \/ \E q \in 1..2 : q <= Len(qw) /\ QueryWorkerPutconn(q)

QuerySpec == QueryInit /\ [][QueryNext]_vars

(***************************************************************************)
(* base_worker.py:102-129: the insert worker's loop in time, in a          *)
(* duration-mode run with one producer thread and one insert worker.  Time *)
(* is counted in ticks of the shortest timeout of get() (0.001 s,          *)
(* base_worker.py:108); the poll interval _GET_POLL_SEC, 100 times as      *)
(* long, is scaled down to PollTicks.  Every step of the worker takes no   *)
(* time, a flush included, and a get() that times out does so exactly on   *)
(* time: time passes only while the worker is blocked in get() on an empty *)
(* queue, or has returned.  The producer puts a record when its next_put_at *)
(* has come, or later.                                                     *)
(***************************************************************************)
PollTicks == 2
MinTimeoutTicks == 1
SecondTicks == 2
MaxBatchWait == 2
MaxWaitBatch == 5
MaxWaitRecords == 5
MaxWaitNow == 5

Min2(a, b) == IF a <= b THEN a ELSE b

WaitArgs ==
    [mode : {"wait"},
     workers : {1},
     batch_size : {2, MaxWaitBatch},
     batch_wait_sec : 1..MaxBatchWait,
     target_rps : {SecondTicks},
     queries_per_record : {0},
     producer_threads : {1},
     total_records : {<<>>},
     patient_count : {RunPatientCount},
     max_counter : {-1},
     process_index : {<<>>},
     sink : {"backend"}]

\* runner.py:100-155, 170-194 have run: the pool, the worker at the top of
\* its loop (base_worker.py:104-105), the producer at producer.py:51-53
WaitInit ==
    /\ CtlIdle
    /\ rl \in WaitArgs
    /\ mpc = "join_producers"
    /\ sent = 0
    /\ pthreads = <<[rps |-> rl.target_rps, state |-> "running", patient_start |-> 0,
                     patient_records |-> <<>>, emitted |-> 0, next_put_at |-> 0]>>
    /\ insertion_queue = <<>>
    /\ unfinished_tasks = 0
    /\ query_queue = <<>>
    /\ inserted_shared = [total |-> 0, originals |-> 0, duplicates |-> 0]
    /\ queries_shared = 0
    /\ pool_free = pool_size(rl.workers)
    /\ iw = <<[pc |-> "loop", accumulated |-> <<>>, n |-> 0, mrns |-> <<>>, after |-> "loop",
               last_written |-> 0, batch_start |-> 0, timeout_at |-> 0, oldest_at |-> 0]>>
    /\ qw = <<>>
    /\ sink_rows = <<>>
    /\ looked_up = <<>>
    /\ get_clock = 0
    /\ now = 0

waitFrame == <<ctlVars, producers, rl, mpc, sent, query_queue, queries_shared, pool_free, qw,
               looked_up>>

\* producer.py:50: interval = 1.0 / target_rps if target_rps > 0 else 0.0, in
\* ticks, a second being scaled down to SecondTicks ticks
interval(target_rps) == IF target_rps > 0 THEN SecondTicks \div target_rps ELSE 0

next_put_at_never_moves(next_put_at, time, target_rps) == next_put_at

\* producer.py:61-63
next_put_at_after(next_put_at, time, target_rps) ==
    IF next_put_at + interval(target_rps) < time
    THEN time + interval(target_rps)
    ELSE next_put_at + interval(target_rps)

\* producer.py:54-63: now >= next_put_at; the next record is put on the queue
WaitProducerPut ==
    /\ mpc = "join_producers"
    /\ pthreads[1].state = "running"
    /\ now >= pthreads[1].next_put_at
    /\ pthreads[1].emitted < MaxWaitRecords
    /\ Len(insertion_queue) < insertion_queue_max(rl)
    /\ LET t == pthreads[1]
           r == next_record(t.patient_records, rl.patient_count, t.patient_start)
       IN  /\ pthreads' = [pthreads EXCEPT ![1] =
                  [t EXCEPT !.patient_records = r.patient_records,
                            !.patient_start = r.patient_start,
                            !.emitted = t.emitted + 1,
                            !.next_put_at = next_put_at_after(t.next_put_at, now, rl.target_rps)]]
           /\ insertion_queue' = Append(insertion_queue, MakeRecord(r.record, 0, t.emitted))
    /\ unfinished_tasks' = unfinished_tasks + 1
    /\ UNCHANGED <<waitFrame, inserted_shared, iw, sink_rows, get_clock, now>>

\* base_worker.py:108
timeout_sec(batch_wait_sec, batch_elapsed) ==
    Min2(PollTicks, Max2(MinTimeoutTicks, batch_wait_sec - batch_elapsed))

\* base_worker.py:106-110: the top of the loop; get(timeout=timeout_sec) is
\* entered and will time out at timeout_at
WaitLoop(w) ==
    /\ iw[w].pc = "loop"
    /\ LET batch_elapsed == now - iw[w].batch_start IN
         iw' = [iw EXCEPT ![w].pc = "get",
                          ![w].timeout_at = now + timeout_sec(rl.batch_wait_sec, batch_elapsed)]
    /\ UNCHANGED <<waitFrame, pthreads, insertion_queue, unfinished_tasks, inserted_shared,
                   sink_rows, get_clock, now>>

\* base_worker.py:74-96 with queries_per_record = 0: the batch is written
\* and counted
WaitFlush(batch) ==
    /\ sink_rows' = BagAddAll(sink_rows, [k \in 1..Len(batch) |-> SinkRow(batch[k])])
    /\ inserted_shared' = StatsAfterFlush(inserted_shared, insert_batch(batch), batch)

\* base_worker.py:119-129: get() returned an item; a sentinel ends the loop
\* after a flush of what is accumulated; a record is appended, and a batch
\* of batch_size records is flushed and batch_start set anew.  oldest_at is
\* the time the oldest accumulated record was taken off the queue.
WaitGet(w) ==
    /\ iw[w].pc = "get"
    /\ insertion_queue # <<>>
    /\ insertion_queue' = Tail(insertion_queue)
    /\ unfinished_tasks' = unfinished_tasks - 1
    /\ LET record == Head(insertion_queue)
           me == iw[w]
           acc == Append(me.accumulated, [record EXCEPT !.got_at = get_clock + 1])
       IN  IF record = INSERTION_SENTINEL
           THEN /\ iw' = [iw EXCEPT ![w] =
                            [me EXCEPT !.pc = "returned", !.after = "return",
                                       !.accumulated = <<>>]]
                /\ IF me.accumulated # <<>>
                   THEN WaitFlush(me.accumulated)
                   ELSE UNCHANGED <<sink_rows, inserted_shared>>
                /\ UNCHANGED get_clock
           ELSE /\ get_clock' = get_clock + 1
                /\ IF FlushDue(Len(acc), rl.batch_size)
                   THEN /\ WaitFlush(acc)
                        /\ iw' = [iw EXCEPT ![w] =
                                    [me EXCEPT !.pc = "loop",
                                               !.accumulated = accumulated_after_flush(acc),
                                               !.batch_start = now]]
                   ELSE /\ iw' = [iw EXCEPT ![w] =
                                    [me EXCEPT !.pc = "loop", !.accumulated = acc,
                                               !.oldest_at = IF me.accumulated = <<>>
                                                             THEN now ELSE me.oldest_at]]
                        /\ UNCHANGED <<sink_rows, inserted_shared>>
    /\ UNCHANGED <<waitFrame, pthreads, now>>

\* base_worker.py:112-118: get() raised queue.Empty when its timeout was
\* over; what is accumulated is flushed if batch_wait_sec has passed since
\* batch_start
WaitEmpty(w) ==
    /\ iw[w].pc = "get"
    /\ insertion_queue = <<>>
    /\ now >= iw[w].timeout_at
    /\ IF iw[w].accumulated # <<>> /\ (now - iw[w].batch_start) >= rl.batch_wait_sec
       THEN /\ WaitFlush(iw[w].accumulated)
            /\ iw' = [iw EXCEPT ![w].pc = "loop",
                                ![w].accumulated = accumulated_after_flush(iw[w].accumulated),
                                ![w].batch_start = now]
       ELSE /\ iw' = [iw EXCEPT ![w].pc = "loop"]
            /\ UNCHANGED <<sink_rows, inserted_shared>>
    /\ UNCHANGED <<waitFrame, pthreads, insertion_queue, unfinished_tasks, get_clock, now>>

\* A tick passes: the worker is blocked in get() before its timeout, or has
\* returned.
WaitTick ==
    /\ now < MaxWaitNow
    /\ mpc \in {"join_producers", "put_sentinels", "queue_join"}
    /\ \A w \in 1..Len(iw) :
          \/ iw[w].pc = "returned"
          \/ iw[w].pc = "get" /\ insertion_queue = <<>> /\ now < iw[w].timeout_at
    /\ now' = now + 1
    /\ UNCHANGED <<waitFrame, pthreads, insertion_queue, unfinished_tasks, inserted_shared, iw,
                   sink_rows, get_clock>>

WaitNext ==
    \/ WaitProducerPut
    \/ ProducerReturn(0)
    \/ JoinProducers
    \/ PutSentinel
    \/ SentinelsDone
    \/ QueueJoin
    \/ JoinInsert
    \/ Teardown
    \/ WaitTick
    \/ \E w \in {1} : WaitLoop(w)
    \/ \E w \in {1} : WaitGet(w)
    \/ \E w \in {1} : WaitEmpty(w)

BatchWaitSpec == WaitInit /\ [][WaitNext]_vars

(***************************************************************************)
(* producer.py:36-67, runner.py:157-196: the producer of a run in time.    *)
(* In duration mode one producer thread runs run_producer with             *)
(* sentinels=0 unless its rate is 0; in fixed-count mode the main thread   *)
(* calls run_producer itself.  A thread may take any time between two      *)
(* steps, and a put blocks while the queue is full.  The insert workers    *)
(* are left out: the queue only fills.                                     *)
(***************************************************************************)
MaxPaceNow == 4
MaxPaceRecords == 8

PaceArgs ==
    [mode : {"pace"},
     workers : {1},
     batch_size : {1},
     target_rps : 0..SecondTicks,
     duration_sec : 1..MaxPaceNow,
     queries_per_record : {0},
     producer_threads : {1},
     total_records : {<<>>, <<1>>},
     patient_count : {RunPatientCount},
     max_counter : {-1},
     process_index : {<<>>},
     sink : {"backend"}]

PaceInit ==
    /\ CtlIdle
    /\ rl \in PaceArgs
    /\ mpc = "setup"
    /\ sent = 0
    /\ pthreads = <<>>
    /\ insertion_queue = <<>>
    /\ unfinished_tasks = 0
    /\ query_queue = <<>>
    /\ inserted_shared = [total |-> 0, originals |-> 0, duplicates |-> 0]
    /\ queries_shared = 0
    /\ pool_free = pool_size(rl.workers)
    /\ iw = <<>>
    /\ qw = <<>>
    /\ sink_rows = <<>>
    /\ looked_up = <<>>
    /\ get_clock = 0
    /\ now = 0

paceFrame == <<ctlVars, producers, rl, sent, query_queue, inserted_shared, queries_shared,
               pool_free, iw, qw, sink_rows, looked_up, get_clock>>

\* runner.py:157-194, producer.py:48-53: the fixed-count call, or the
\* producer thread: it returns at once with a rate of 0 (runner.py:176-177),
\* else run_producer reads its start time.  last is <<>> or the time sampled
\* for the last emission and the deadline that record had.
PaceStartProducers ==
    /\ mpc = "setup"
    /\ IF use_fixed_count
       THEN /\ mpc' = "run_producer"
            /\ pthreads' = <<>>
       ELSE /\ mpc' = "join_producers"
            /\ LET rps == ProducerRps(rl.target_rps, rl.producer_threads, 0) IN
                 pthreads' = <<[rps |-> rps,
                                state |-> IF rps <= 0 THEN "returned" ELSE "running",
                                pc |-> "loop",
                                patient_start |-> Max2(0, rl.max_counter + 1),
                                patient_records |-> <<>>, emitted |-> 0,
                                start |-> now, next_put_at |-> now, sampled |-> now,
                                last |-> <<>>]>>
    /\ UNCHANGED <<paceFrame, insertion_queue, unfinished_tasks, now>>

\* producer.py:54-56, 64-67: the loop test and the time sampled in the loop
\* body; with sentinels=0 the producer returns when its duration is over
PaceLoop ==
    /\ mpc = "join_producers"
    /\ pthreads[1].state = "running"
    /\ pthreads[1].pc = "loop"
    /\ LET t == pthreads[1] IN
         pthreads' = [pthreads EXCEPT ![1] =
            IF now - t.start < rl.duration_sec
            THEN [t EXCEPT !.sampled = now,
                           !.pc = IF now >= t.next_put_at THEN "put" ELSE "sleep"]
            ELSE [t EXCEPT !.state = "returned"]]
    /\ UNCHANGED <<paceFrame, mpc, insertion_queue, unfinished_tasks, now>>

\* producer.py:57-63: the record is put (a blocking put) and the next
\* deadline computed from the time sampled before the put
PacePut ==
    /\ mpc = "join_producers"
    /\ pthreads[1].state = "running"
    /\ pthreads[1].pc = "put"
    /\ pthreads[1].emitted < MaxPaceRecords
    /\ Len(insertion_queue) < insertion_queue_max(rl)
    /\ LET t == pthreads[1]
           r == next_record(t.patient_records, rl.patient_count, t.patient_start)
       IN  /\ pthreads' = [pthreads EXCEPT ![1] =
                  [t EXCEPT !.patient_records = r.patient_records,
                            !.patient_start = r.patient_start,
                            !.emitted = t.emitted + 1,
                            !.next_put_at = next_put_at_after(t.next_put_at, t.sampled, t.rps),
                            !.last = <<t.sampled, t.next_put_at>>,
                            !.pc = "loop"]]
           /\ insertion_queue' = Append(insertion_queue, MakeRecord(r.record, 0, t.emitted))
    /\ unfinished_tasks' = unfinished_tasks + 1
    /\ UNCHANGED <<paceFrame, mpc, now>>

\* producer.py:64-65: time.sleep(min(0.001, next_put_at - now)) returns
PaceWake ==
    /\ mpc = "join_producers"
    /\ pthreads[1].state = "running"
    /\ pthreads[1].pc = "sleep"
    /\ pthreads' = [pthreads EXCEPT ![1].pc = "loop"]
    /\ UNCHANGED <<paceFrame, mpc, insertion_queue, unfinished_tasks, now>>

\* Time passes.
PaceTick ==
    /\ now < MaxPaceNow
    /\ now' = now + 1
    /\ UNCHANGED <<paceFrame, mpc, pthreads, insertion_queue, unfinished_tasks>>

PaceNext ==
    \/ PaceStartProducers
    \/ FixedRunProducer
    \/ PaceLoop
    \/ PacePut
    \/ PaceWake
    \/ PaceTick
    \/ JoinProducers
    \/ PutSentinel
    \/ SentinelsDone

PaceSpec == PaceInit /\ [][PaceNext]_vars

----------------------------------------------------------------------------
(***************************************************************************)
(* Claims.                                                                 *)
(***************************************************************************)

\* The ordinal range of process i (0-based) once the starts are computed.
RangeOf(i) ==
    patient_starts[i + 1] .. (patient_starts[i + 1] + records_per_process_list[i + 1] - 1)

\* C1: for every processCount >= 1, totalRecords >= 1 and reported maximum
\* ordinal m >= -1, process i starts at max(0, m+1) plus the shares of the
\* processes before it; the ranges [start_i, start_i + share_i) are pairwise
\* disjoint, contiguous, and together cover exactly [base, base + totalRecords).
C1_ShardsPartition ==
    cpc = "spawn" =>
        LET base == IF max_counter + 1 > 0 THEN max_counter + 1 ELSE 0
            n == args.processes
            total == total_records_of(args)
        IN  /\ Len(patient_starts) = n
            /\ \A i \in 0..(n - 1) :
                 patient_starts[i + 1] =
                     base + SumSeq(Prefix(records_per_process_list, i))
            /\ \A i, j \in 0..(n - 1) : i # j => RangeOf(i) \cap RangeOf(j) = {}
            /\ \A i \in 0..(n - 2) :
                 patient_starts[i + 2] =
                     patient_starts[i + 1] + records_per_process_list[i + 1]
            /\ UNION {RangeOf(i) : i \in 0..(n - 1)} = base .. (base + total - 1)

\* The ordinals process i's producer has emitted so far.
Emitted(i) == {producers[i + 1].log[k].ord : k \in 1..Len(producers[i + 1].log)}

\* C2: a producer started at ordinal s gives its k-th record (k from 0) an
\* ordinal in [s, s+k]; so a process emitting its share stays inside its
\* sub-range, and no ordinal is shared with another process of the run, nor
\* with an earlier run whose maximum ordinal gave the base.
C2_OrdinalsInShard ==
    cpc = "join" =>
        /\ \A i \in 0..(args.processes - 1) :
             LET s == patient_starts[i + 1]
                 log == producers[i + 1].log
             IN  /\ \A k \in 0..(Len(log) - 1) :
                       /\ log[k + 1].ord >= s
                       /\ log[k + 1].ord <= s + k
                 /\ \A o \in Emitted(i) :
                       /\ o >= s
                       /\ o < s + records_per_process_list[i + 1]
                       /\ o > max_counter
        /\ \A i, j \in 0..(args.processes - 1) :
             i # j => Emitted(i) \cap Emitted(j) = {}

\* C2 witness: two processes have emitted their whole share, the pool was
\* refilled on the way and a duplicate was emitted.
C2_Witness ==
    /\ cpc = "join"
    /\ args.processes = 2
    /\ args.patient_count = 2
    /\ \A i \in 0..1 :
         /\ Len(producers[i + 1].log) = records_per_process_list[i + 1]
         /\ Len(producers[i + 1].log) > args.patient_count
         /\ \E k \in 1..Len(producers[i + 1].log) : ~producers[i + 1].log[k].is_original

\* C3: in duration mode with producerThreads >= 2, whatever the rate and the
\* duration, no ordinal is used by two producer threads of one process.
C3_ThreadsDisjoint ==
    \A i, j \in 1..Len(pthreads) :
        i # j =>
            \A a \in pthreads[i].used, b \in pthreads[j].used :
                a[2] < b[1] \/ b[2] < a[1]

\* The identities of the records the producer threads have put on the queue.
EnqueuedIds ==
    UNION {{<<i - 1, s>> : s \in 0..(pthreads[i].emitted - 1)} : i \in 1..Len(pthreads)}

\* How many items of a queue or batch are the record, or the LookupTask of
\* the record, with this identity.
CountIn(items, id) ==
    Cardinality({k \in 1..Len(items) :
                    /\ items[k] \notin {INSERTION_SENTINEL, QUERY_SENTINEL}
                    /\ RecordId(items[k]) = id})

\* In how many batches not yet handed to the Sink the record is.
HeldCount(id) ==
    SumSeq([w \in 1..Len(iw) |->
               IF iw[w].pc \in {"get", "flush"} THEN CountIn(iw[w].accumulated, id) ELSE 0])

\* C4: with N insert workers on one insertion queue and no Sink failure, every
\* record a producer enqueued is at any time in exactly one place: still on
\* the queue, in the batch of exactly one worker, or written to the Sink in
\* exactly one batch; once run_load has returned every record has been
\* written exactly once.  Within one worker the records of a batch are in the
\* order the worker dequeued them, and all were dequeued after the records of
\* the worker's earlier batches.
C4_EachRecordInOneBatch ==
    /\ \A id \in EnqueuedIds :
          CountIn(insertion_queue, id) + HeldCount(id) + WrittenCount(id) = 1
    /\ \A row \in DOMAIN sink_rows : <<row.src, row.seq>> \in EnqueuedIds
    /\ \A w \in 1..Len(iw) :
          LET acc == iw[w].accumulated IN
          /\ \A k \in 1..(Len(acc) - 1) : acc[k].got_at < acc[k + 1].got_at
          /\ (iw[w].pc \in {"get", "flush"} /\ acc # <<>>) => acc[1].got_at > iw[w].last_written
    /\ mpc = "done" => \A id \in EnqueuedIds : WrittenCount(id) = 1

\* C4 witness: a run with two insert workers has returned, and each of the
\* two workers wrote a batch.
C4_Witness ==
    /\ mpc = "done"
    /\ rl.workers = 2
    /\ \A w \in 1..2 : iw[w].last_written > 0
    /\ BagSize(sink_rows) >= 2

\* C5: at every read of the counters under inserted_lock,
\* originals + duplicates = total, for any interleaving of the flushes of
\* concurrent insert workers and any count the Sink's insert_batch returns.
C5_SplitSumsToTotal ==
    inserted_shared.originals + inserted_shared.duplicates = inserted_shared.total

\* The records of the batches that are written but not yet counted.
WrittenNotCounted ==
    SumSeq([w \in 1..Len(iw) |-> IF iw[w].pc = "stats" THEN Len(iw[w].accumulated) ELSE 0])

\* C6: at every read of the counters under inserted_lock, total is the sum
\* of the sizes of the batches that were written to the Sink and whose
\* counter update has been applied; no record is counted twice, and once no
\* flush is under way every written batch is counted.
C6_TotalCountsWrittenBatches ==
    /\ inserted_shared.total = BagSize(sink_rows) - WrittenNotCounted
    /\ inserted_shared.total <= Cardinality(DOMAIN sink_rows)
    /\ (\A w \in 1..Len(iw) : iw[w].pc \in {"get", "returned"}) =>
           inserted_shared.total = BagSize(sink_rows)

\* C6 witness: one batch is written and counted while another worker's batch
\* is written and not yet counted.
C6_Witness ==
    /\ rl.mode = "run"
    /\ inserted_shared.total >= 1
    /\ WrittenNotCounted >= 1

AllWorkersReturned ==
    /\ \A w \in 1..Len(iw) : iw[w].pc = "returned"
    /\ \A q \in 1..Len(qw) : qw[q].pc = "returned"

\* Once the sentinels are enqueued, run_load returns.
ShutdownAfterSentinels == (mpc = "queue_join") ~> (mpc = "done")

\* C7: with no Sink failure, under fair scheduling every run reaches shutdown:
\* run_load returns, and when it does every insert worker and every query
\* worker has exited and both queues are empty.
C7_RunReachesShutdown ==
    /\ <>(mpc = "done")
    /\ [](mpc = "done" =>
            (insertion_queue = <<>> /\ query_queue = <<>> /\ AllWorkersReturned))

\* The rows of the Sink whose payload parses and holds a non-empty key.
KeyedRows ==
    {row \in DOMAIN sink_rows :
        row.payload.kind = "json" /\ row.payload.mrn \notin {<<>>, <<"None">>}}

\* The LookupTasks of a record that are on the query queue, held by a query
\* worker, or carried out.
TaskCount(id) ==
    CountIn(query_queue, id)
      + Cardinality({q \in 1..Len(qw) : qw[q].pc = "query" /\ RecordId(qw[q].item) = id})
      + BagCount(looked_up, id)

\* C8: with queries_per_record >= 1 and no Sink failure, no LookupTask is
\* consumed by two query workers, each consumed task adds exactly
\* queries_per_record to the query count, and once the query workers are
\* joined the query queue is empty, the task of every written record with a
\* key was carried out exactly once, and the query count is
\* queries_per_record times the number of those records.
C8_TasksConsumedOnce ==
    run_query_workers =>
        /\ queries_shared = rl.queries_per_record * BagSize(looked_up)
        /\ \A id \in EnqueuedIds : TaskCount(id) <= 1
        /\ mpc \in {"teardown", "done"} =>
              /\ query_queue = <<>>
              /\ \A q \in 1..Len(qw) : qw[q].pc = "returned"
              /\ \A row \in KeyedRows : BagCount(looked_up, <<row.src, row.seq>>) = 1
              /\ queries_shared = rl.queries_per_record * BagSizeOver(sink_rows, KeyedRows)

\* C8 witness: a run with two query workers and two lookups per record has
\* returned after at least two records.
C8_Witness ==
    /\ mpc = "done"
    /\ rl.workers = 2
    /\ rl.queries_per_record = 2
    /\ queries_shared >= 4

\* C9: the LookupTasks pushed are never more than the records with a
\* non-empty extractable key in the batches the Sink wrote without error: a
\* task is pushed only after its record's batch was written, at most once per
\* record, and never for an unparseable payload or a missing or empty key.
C9_TasksOnlyForWrittenKeyedRecords ==
    /\ Len(query_queue) <= BagSizeOver(sink_rows, KeyedRows)
    /\ \A k \in 1..Len(query_queue) :
          LET task == query_queue[k] IN
          /\ \E row \in KeyedRows :
                row.src = task.src /\ row.seq = task.seq /\ row.payload.mrn = task.mrn
          /\ iw[task.src + 1].pc \in {"push", "returned"}
          /\ \A j \in 1..Len(query_queue) :
                j # k => RecordId(query_queue[j]) # RecordId(task)

\* C9 witness: worker 1 has flushed a batch with a record without a usable
\* key and pushed a task; the Sink raised on worker 2's batch, whose record
\* has a key.
C9_Witness ==
    /\ rl.mode = "flush"
    /\ iw[1].pc = "returned"
    /\ iw[2].pc = "raised"
    /\ iw[2].accumulated[1].payload.kind = "json"
    /\ iw[2].accumulated[1].payload.mrn = <<"MRN", 0>>
    /\ Len(query_queue) = 1
    /\ \E row \in DOMAIN sink_rows : row \notin KeyedRows

\* C10: in fixed-count mode, when the run_load call is over, the producer has
\* enqueued total_records records and one sentinel per worker, run_load has
\* returned, and total = total_records.
C10_FixedCountInsertsAll ==
    (use_fixed_count /\ mpc \in {"done", "raised"}) =>
        /\ mpc = "done"
        /\ inserted_shared.total = rl.total_records[1]

\* Some insert worker's flush ended with the Sink raising.
SinkRaised == \E w \in 1..Len(iw) : iw[w].pc = "raised"

\* C11: if the Sink raises during a flush of an insert worker, then under
\* fair scheduling the run_load call eventually ends (it returns or raises).
C11_RunEndsAfterSinkError == [](SinkRaised => <>(mpc \in {"done", "raised"}))

\* C12: if the Sink raised during a flush of an insert worker, run_load does
\* not return normally.
C12_NoSuccessAfterSinkError == SinkRaised => mpc # "done"

\* Some child process has exited with a non-zero status.
ChildFailed ==
    \E k \in 1..Len(children) :
        children[k].pc = "exited" /\ children[k].exitcode # <<0>>

\* C13: if a child process exits with a non-zero status at any point of its
\* life, the controller eventually stops waiting and exits non-zero with a
\* message naming exactly the indices of the failed children.
C13_FailedChildrenReported ==
    [](ChildFailed => <>(cpc = "exit_failed" /\ failed = FailedFrom(children, 1)))

\* Some process would get a record share that is not positive.
BadShare(a) ==
    /\ a.processes >= 1
    /\ \E i \in 0..(a.processes - 1) :
          RecordShare(total_records_of(a), a.processes, i) <= 0

\* C14: with a non-positive record share for some process the controller
\* spawns no child and creates no barrier, queue or pool; with a non-positive
\* batch wait, workers < 1 or processes < 1 it stops before any Sink call.
C14_BadConfigRejectedEarly ==
    /\ BadShare(args) => (children = <<>> /\ barrier.parties = 0)
    /\ Rejected(args) => (cpc \in {"validate", "rejected"} /\ schema.by = <<>>)

\* Every child has been started and its setup (pool created and warmed) has
\* returned.
AllPoolsWarm ==
    /\ Len(children) = args.processes
    /\ \A k \in 1..Len(children) : children[k].setup_done

\* C15: with more than one process the barrier has processes + 1 parties, a
\* child arrives at it only after its own setup returned, and no child has
\* started its worker, reporter or producer threads, nor the controller its
\* aggregator thread, before the setup of every child has returned.
C15_NoStartBeforeAllPoolsWarm ==
    args.processes > 1 =>
        /\ barrier.parties > 0 => barrier.parties = args.processes + 1
        /\ \A k \in 1..Len(children) :
              /\ children[k].pc \in {"waiting", "go", "running"} => children[k].setup_done
              /\ <<"child", k - 1>> \in barrier.arrived => children[k].setup_done
              /\ (children[k].threads \/ children[k].pc \in {"go", "running"}) => AllPoolsWarm
        /\ agg.pc # "unstarted" => AllPoolsWarm

\* C15 witness: three processes, a child has started its threads and the
\* controller its aggregator.
C15_Witness ==
    /\ args.processes = 3
    /\ agg.pc = "wait"
    /\ \E k \in 1..Len(children) : children[k].threads

\* The controller has ended after accepting the configuration.
RunOver == cpc \in {"exit_ok", "exit_failed", "raised"}

\* A child ended before its setup returned, because the setup failed.
SetupFailed ==
    \E k \in 1..Len(children) :
        children[k].pc = "exited" /\ ~children[k].setup_done /\ children[k].exitcode # <<0>>

\* C16: the schema initialization is never run by two processes at once and
\* never twice; with more than one process it is the controller that runs
\* it, before the first child is started, and with one process the child;
\* and in every run that ends without a setup failure it has run once.
C16_SchemaInitExactlyOnce ==
    /\ Cardinality(schema.active) <= 1
    /\ Len(schema.by) + Cardinality(schema.active) <= 1
    /\ args.processes > 1 =>
          /\ schema.by \in {<<>>, <<"controller">>}
          /\ schema.active \subseteq {<<"controller">>}
          /\ children # <<>> => schema.by = <<"controller">>
    /\ args.processes = 1 =>
          /\ schema.by \in {<<>>, <<"child">>}
          /\ schema.active \subseteq {<<"child", 0>>}
    /\ (RunOver /\ ~SetupFailed) => Len(schema.by) = 1

\* The snapshot of process `i` that is last in `log`, zeros if there is none.
RECURSIVE LastSnapshot(_, _)
LastSnapshot(log, i) ==
    IF log = <<>> THEN ZeroStats
    ELSE IF log[Len(log)][1] = i THEN log[Len(log)][2]
    ELSE LastSnapshot(SubSeq(log, 1, Len(log) - 1), i)

\* Field f summed over the last snapshot of every process index in `log`.
SumOfLast(log, f) ==
    SumSeq([k \in 1..args.processes |-> LastSnapshot(log, k - 1)[f]])

\* The six cumulative figures a tick logs when the latest snapshots are those
\* of `log`.
FiguresOf(log) ==
    <<SumOfLast(log, 1), SumOfLast(log, 2), SumOfLast(log, 3),
      AvgMs(SumOfLast(log, 4), SumOfLast(log, 1)),
      SumOfLast(log, 5),
      AvgMs(SumOfLast(log, 6), SumOfLast(log, 5))>>

C18_TotalsNeverDecrease ==
    agg.printed # <<>> =>
        \A f \in {1, 2, 3, 5} : agg.printed[1].interval[f] >= 0

\* C19: when the child's run_load call has returned, the last snapshot the
\* child has put on the queue holds the final values of its counters: every
\* batch written and every lookup made.
C19_LastSnapshotIsFinalStats ==
    mpc = "done" =>
        LastSnapshot(snap_log.put, rl.process_index[1]) =
            SnapshotOf(inserted_shared, queries_shared)

\* C20: once every child has ended and the aggregator has stopped, the queue
\* is empty and the figures last logged are those of the sum of the last
\* snapshot each child put on the queue.
C20_LastTickShowsFinalSnapshots ==
    (agg.pc = "returned" /\ \A k \in 1..Len(children) : children[k].pc = "exited") =>
        /\ progress_queue = <<>>
        /\ snap_log.put # <<>> =>
              /\ agg.printed # <<>>
              /\ agg.printed[1].cumulative = FiguresOf(snap_log.put)

\* C21: an insert worker that goes back to the queue holds fewer than
\* batch_size records, because it flushes right after the append that makes
\* its batch reach batch_size; so every batch handed to _flush and to the
\* Sink's insert_batch holds at least 1 and at most batch_size records.
C21_BatchesHoldOneToBatchSize ==
    \A w \in 1..Len(iw) :
        /\ iw[w].pc = "get" => Len(iw[w].accumulated) < rl.batch_size
        /\ iw[w].pc \in {"flush", "stats", "push", "raised"} =>
              /\ Len(iw[w].accumulated) >= 1
              /\ Len(iw[w].accumulated) <= rl.batch_size

\* C21 witness: with batch_size 2 a worker has written a batch that became
\* full by an append.
C21_Witness ==
    /\ rl.mode = "run"
    /\ rl.batch_size = 2
    /\ \E w \in 1..Len(iw) :
          /\ iw[w].pc = "stats"
          /\ iw[w].after = "loop"
          /\ Len(iw[w].accumulated) = 2

\* C23: once the controller has computed the shares, the share of process i
\* is (total div processes) + (1 if i < total mod processes else 0), the
\* shares sum to the total and differ by at most 1, and the share a child
\* has computed for itself is the one the controller used for its range.
C23_SharesExactAndAgreed ==
    records_per_process_list # <<>> =>
        LET total == total_records_of(args)
            n == args.processes
            shares == records_per_process_list
        IN  /\ Len(shares) = n
            /\ \A i \in 0..(n - 1) :
                  shares[i + 1] = (total \div n) + (IF i < total % n THEN 1 ELSE 0)
            /\ SumSeq(shares) = total
            /\ \A i, j \in 1..n : shares[i] - shares[j] <= 1
            /\ \A k \in 1..Len(children) :
                  children[k].records # <<>> => children[k].records = <<shares[k]>>

\* C23 witness: three processes and a total that does not divide evenly;
\* every child has computed its share.
C23_Witness ==
    /\ args.processes = 3
    /\ total_records_of(args) = 4
    /\ Len(children) = 3
    /\ \A k \in 1..3 : children[k].records # <<>>

\* C24: the rates the child processes compute for themselves, rows_per_second
\* div processes plus 1 for the first rows_per_second mod processes children,
\* sum to rows_per_second; the rates of the producer threads of a run,
\* target_rps div producer_threads plus 1 for the first remainder threads,
\* sum to target_rps; and a producer thread with rate 0 emits nothing.
C24_RateSplitsAreExact ==
    /\ (\A k \in 1..Len(children) : children[k].rps # <<>>) =>
          /\ SumSeq([k \in 1..Len(children) |-> children[k].rps[1]]) = args.rows_per_second
          /\ \A k \in 1..Len(children) :
                children[k].rps[1] =
                    (args.rows_per_second \div args.processes)
                        + (IF k - 1 < args.rows_per_second % args.processes THEN 1 ELSE 0)
    /\ pthreads # <<>> =>
          /\ Len(pthreads) = rl.producer_threads
          /\ SumSeq([k \in 1..Len(pthreads) |-> pthreads[k].rps]) = rl.target_rps
          /\ \A k \in 1..Len(pthreads) :
                /\ pthreads[k].rps =
                      (rl.target_rps \div rl.producer_threads)
                          + (IF k - 1 < rl.target_rps % rl.producer_threads THEN 1 ELSE 0)
                /\ pthreads[k].rps = 0 => (pthreads[k].pools = 0 /\ pthreads[k].used = {})

\* C24 witness: neither split is even; every child has computed its rate,
\* and of three producer threads the first two have emitted while the third,
\* whose rate is 0, has not.
C24_Witness ==
    /\ args.processes = 3
    /\ args.rows_per_second = 2
    /\ \A k \in 1..3 : children[k].rps # <<>>
    /\ rl.producer_threads = 3
    /\ rl.target_rps = 2
    /\ Len(pthreads) = 3
    /\ pthreads[1].pools > 0
    /\ pthreads[2].pools > 0
    /\ pthreads[3].rps = 0

\* C25: with queries_per_record = 0 nothing is ever put on the query queue
\* (neither a LookupTask nor a sentinel), no query worker thread exists, no
\* lookup is made and the query count stays 0, while the run still counts
\* every record it produced and returns.
C25_NoVerificationWhenDisabled ==
    rl.queries_per_record = 0 =>
        /\ query_queue = <<>>
        /\ qw = <<>>
        /\ queries_shared = 0
        /\ looked_up = <<>>
        /\ mpc # "put_query_sentinels"
        /\ \A w \in 1..Len(iw) : iw[w].mrns = <<>>
        /\ mpc = "done" => inserted_shared.total = TotalEmitted

\* C25 witness: a run without verification has returned after two workers
\* wrote records.
C25_Witness ==
    /\ rl.queries_per_record = 0
    /\ rl.workers = 2
    /\ mpc = "done"
    /\ inserted_shared.total >= 2

\* C28: no step of a run lowers a field of the process's statistics: the
\* total, original and duplicate insert counts and the query count of the
\* next state are each at least those of the current state, so a snapshot
\* read later is elementwise at least a snapshot read earlier.
C28_StatsNeverDecrease ==
    [][/\ inserted_shared'.total >= inserted_shared.total
       /\ inserted_shared'.originals >= inserted_shared.originals
       /\ inserted_shared'.duplicates >= inserted_shared.duplicates
       /\ queries_shared' >= queries_shared]_vars

\* C28 witness: with batches of one record the insert counters have been
\* raised by two flushes and the query count by two LookupTasks.
C28_Witness ==
    /\ rl.mode = "run"
    /\ rl.batch_size = 1
    /\ inserted_shared.total >= 2
    /\ queries_shared >= 2 * rl.queries_per_record
    /\ rl.queries_per_record > 0

\* The rows of the batches that are written but not yet counted.
PendingRows ==
    UNION {{SinkRow(iw[w].accumulated[k]) : k \in 1..Len(iw[w].accumulated)} :
           w \in {v \in 1..Len(iw) : iw[v].pc = "stats"}}

InsertionSentinelsPut ==
    Cardinality({k \in 1..Len(insertion_queue) : insertion_queue[k] = INSERTION_SENTINEL})
        + Cardinality({w \in 1..Len(iw) : iw[w].after = "return"})

\* C30: in every mode, when the run_load call is over exactly num_workers
\* sentinels have been put on the insertion queue, every sentinel was put
\* after every producer had returned, and no record is ever behind a
\* sentinel in the queue.
C30_OneSentinelPerWorkerAfterRecords ==
    /\ InsertionSentinelsPut <= rl.workers
    /\ mpc \in {"done", "raised"} => InsertionSentinelsPut = rl.workers
    /\ InsertionSentinelsPut > 0 => \A k \in 1..Len(pthreads) : pthreads[k].state = "returned"
    /\ \A j, k \in 1..Len(insertion_queue) :
          (j < k /\ insertion_queue[j] = INSERTION_SENTINEL) =>
              insertion_queue[k] = INSERTION_SENTINEL

\* The query workers that hold a LookupTask whose count is not added yet,
\* and those that hold a connection.
QueryWorkersBeforeCount ==
    {q \in 1..Len(qw) : qw[q].pc \in {"delay", "sleep", "getconn", "lookup"}}
QueryWorkersWithConn == {q \in 1..Len(qw) : qw[q].pc \in {"lookup", "putconn"}}
TasksOnQueryQueue ==
    Cardinality({k \in 1..Len(query_queue) : query_queue[k] # QUERY_SENTINEL})

\* C26: whatever the lookups return (no row, one row, several rows), a query
\* worker makes all queries_per_record lookups of its LookupTask, adds
\* queries_per_record to the query count, gives its connection back and
\* takes the next item; the run ends with every query worker returned and
\* queries_per_record lookups counted for every LookupTask.
C26_AnomalousLookupIsNotFatal ==
    rl.mode = "query" =>
        /\ \A q \in 1..Len(qw) : qw[q].pc = "putconn" => qw[q].done = rl.queries_per_record
        /\ queries_shared = rl.queries_per_record *
               (inserted_shared.total - TasksOnQueryQueue - Cardinality(QueryWorkersBeforeCount))
        /\ mpc # "done" =>
               pool_free = rl.workers * 2 - Cardinality(QueryWorkersWithConn)
        /\ mpc \in {"teardown", "done"} =>
               /\ \A q \in 1..Len(qw) : qw[q].pc = "returned"
               /\ queries_shared = rl.queries_per_record * inserted_shared.total

\* C26 witness: the run has returned although, with two lookups per record,
\* both query workers logged a result of other than one row.
C26_Witness ==
    /\ rl.mode = "query"
    /\ mpc = "done"
    /\ rl.queries_per_record = 2
    /\ Len(qw) = 2
    /\ \A q \in 1..2 : qw[q].logged_error
    /\ queries_shared = 4

\* C29: with a query delay d > 0 a query worker takes a connection and
\* issues its lookups for a LookupTask only at insert_time + d or later, and
\* it sleeps only if it took the task off the queue before insert_time + d:
\* a task dequeued later is looked up without a wait.
C29_LookupNotBeforeDelay ==
    (rl.mode = "query" /\ rl.query_delay_sec > 0) =>
        \A q \in 1..Len(qw) :
            /\ qw[q].pc \in {"getconn", "lookup"} =>
                  now >= qw[q].item.insert_time + rl.query_delay_sec
            /\ qw[q].pc = "sleep" =>
                  qw[q].got_at < qw[q].item.insert_time + rl.query_delay_sec

\* C29 witness: one query worker has made a lookup for a task it dequeued
\* before insert_time + d, another for a task it dequeued after that time.
C29_Witness ==
    /\ rl.mode = "query"
    /\ rl.query_delay_sec > 0
    /\ Len(qw) = 2
    /\ qw[1].pc = "lookup" /\ qw[1].done >= 1
    /\ qw[1].got_at < qw[1].item.insert_time + rl.query_delay_sec
    /\ qw[2].pc = "lookup" /\ qw[2].done >= 1
    /\ qw[2].got_at > qw[2].item.insert_time + rl.query_delay_sec

\* C22: an insert worker's non-empty buffer of fewer than batch_size
\* records is never older than batch_wait_sec plus one poll interval,
\* counted from the time its oldest record was taken off the queue, however
\* the further records arrive.
C22_PartialBatchFlushedInTime ==
    rl.mode = "wait" =>
        \A w \in 1..Len(iw) :
            (iw[w].accumulated # <<>> /\ Len(iw[w].accumulated) < rl.batch_size) =>
                now - iw[w].oldest_at <= rl.batch_wait_sec + PollTicks

\* The sentinels put on the query queue so far: those still on it and those
\* a query worker has taken.
QuerySentinelsPut ==
    Cardinality({k \in 1..Len(query_queue) : query_queue[k] = QUERY_SENTINEL})
        + Cardinality({q \in 1..Len(qw) : qw[q].pc = "returned"})

\* C31: with verification enabled, when the run_load call is over exactly
\* num_workers sentinels have been put on the query queue, the first of them
\* only after every insert worker thread had ended, and no LookupTask is
\* ever behind a sentinel in the query queue.
C31_QuerySentinelsAfterInsertWorkers ==
    rl.queries_per_record > 0 =>
        /\ QuerySentinelsPut <= rl.workers
        /\ mpc \in {"done", "raised"} => QuerySentinelsPut = rl.workers
        /\ QuerySentinelsPut > 0 => \A w \in 1..Len(iw) : iw[w].pc = "returned"
        /\ \A j, k \in 1..Len(query_queue) :
              (j < k /\ query_queue[j] = QUERY_SENTINEL) =>
                  query_queue[k] = QUERY_SENTINEL

\* The records the insert workers hold or have written.
RecordsHeldOrWritten ==
    {<<row.src, row.seq>> : row \in DOMAIN sink_rows}
        \cup UNION {{RecordId(iw[w].accumulated[k]) : k \in 1..Len(iw[w].accumulated)} :
                    w \in 1..Len(iw)}

\* C32: an insert worker that took a sentinel off the queue takes nothing
\* more: it flushes what it has accumulated and returns with an empty
\* buffer.  No record taken off the queue is lost: each is in a worker's
\* buffer or written to the Sink, and once every worker has returned each is
\* written.
C32_SentinelFlushesThenReturns ==
    rl.mode = "run" =>
        /\ \A w \in 1..Len(iw) :
              /\ iw[w].after = "return" => iw[w].pc \in {"flush", "stats", "push", "returned"}
              /\ iw[w].pc = "returned" => iw[w].after = "return" /\ iw[w].accumulated = <<>>
        /\ Cardinality(RecordsHeldOrWritten) = get_clock
        /\ (\A w \in 1..Len(iw) : iw[w].pc = "returned") =>
               Cardinality(DOMAIN sink_rows) = get_clock

\* C32 witness: with batches of two, a worker that took its sentinel with
\* one record accumulated has written that record and is counting it.
C32_Witness ==
    /\ rl.mode = "run"
    /\ rl.batch_size = 2
    /\ \E w \in 1..Len(iw) :
          /\ iw[w].pc = "stats"
          /\ iw[w].after = "return"
          /\ Len(iw[w].accumulated) = 1

\* C33: a flush of fewer than batch_size records that is not the flush on a
\* sentinel (get() timed out on an empty queue and the buffer is emptied)
\* happens only when at least batch_wait_sec has passed since the oldest
\* record of the buffer was taken off the queue.
C33_TimerFlushOnlyAfterWait ==
    [][\A w \in 1..Len(iw) :
          (/\ rl.mode = "wait"
           /\ iw[w].pc = "get"
           /\ insertion_queue = <<>>
           /\ iw[w].accumulated # <<>>
           /\ iw'[w].accumulated = <<>>) =>
              now - iw[w].oldest_at >= rl.batch_wait_sec]_vars

\* C34: after every emission the deadline in force is not earlier than the
\* time sampled for that emission, and when that time was later than the
\* record's deadline the new deadline is the sampled time plus the interval.
C34_DeadlineResyncsWhenLate ==
    rl.mode = "pace" =>
        \A k \in 1..Len(pthreads) :
            pthreads[k].last # <<>> =>
                LET sampled == pthreads[k].last[1]
                    was_due == pthreads[k].last[2]
                IN  /\ pthreads[k].next_put_at >= sampled
                    /\ sampled > was_due =>
                          pthreads[k].next_put_at = sampled + interval(pthreads[k].rps)

\* C35: a producer started at time start with a rate above 0 has enqueued
\* by time now at most 1 + (now - start) / interval records; a producer
\* whose rate is 0 enqueues none, and in fixed-count mode, whatever the rate,
\* no record is enqueued.
C35_NeverFasterThanTarget ==
    rl.mode = "pace" =>
        /\ \A k \in 1..Len(pthreads) :
              IF pthreads[k].rps > 0
              THEN (pthreads[k].emitted - 1) * interval(pthreads[k].rps)
                       <= now - pthreads[k].start
              ELSE pthreads[k].emitted = 0
        /\ Len(insertion_queue) <= TotalEmitted + sent

\* C35 witness: a producer of one record per tick was stalled for three
\* ticks after its first record; it has enqueued its second record, due at
\* time 1, at time 3, and its next deadline is time 4.
C35_Witness ==
    /\ rl.mode = "pace"
    /\ Len(pthreads) = 1
    /\ interval(pthreads[1].rps) = 1
    /\ pthreads[1].start = 0
    /\ pthreads[1].emitted = 2
    /\ pthreads[1].last = <<3, 1>>
    /\ pthreads[1].next_put_at = 4

\* C39: no child process computes a positive record share together with a
\* rate share of 0.
C39_PositiveShareHasPositiveRate ==
    \A k \in 1..Len(children) :
        (children[k].records # <<>> /\ children[k].records[1] > 0) =>
            children[k].rps[1] > 0

\* C38: once the controller has created the start barrier (more than one
\* process), then under fair scheduling, unless the setup of a child fails,
\* all processes + 1 parties eventually arrive and the barrier opens.
C38_BarrierEventuallyOpens ==
    [](barrier.parties > 0 => <>(barrier.released \/ SetupFailed))

\* The insert workers inside _flush between get_connection and
\* release_connection, and the query workers between taking a connection and
\* the finally clause that gives it back: each holds one connection.
InsertWorkersWithConn == {w \in 1..Len(iw) : iw[w].pc \in {"stats", "push"}}
QueryWorkersLookingUp == {q \in 1..Len(qw) : qw[q].pc = "lookup"}
\* The threads that are about to take a connection.
ThreadsWantingConn ==
    {<<"insert", w>> : w \in {k \in 1..Len(iw) : iw[k].pc = "flush"}}
        \cup {<<"query", q>> : q \in {k \in 1..Len(qw) : qw[k].pc = "query"}}

\* C36: while the pool of a run is open it holds 2 * workers connections,
\* each either checked in or held by exactly one insert or query worker (a
\* worker that raised holds none), never more are checked out than the pool
\* holds, and a thread that needs a connection finds one checked in, also
\* while insert workers hold theirs blocked on a full query queue.
C36_PoolNeverExhausted ==
    mpc \notin {"setup", "done"} =>
        /\ pool_free >= 0
        /\ pool_free + Cardinality(InsertWorkersWithConn)
               + Cardinality(QueryWorkersLookingUp) = 2 * rl.workers
        /\ ThreadsWantingConn # {} => pool_free > 0

\* C36 witness: an insert worker holds its connection blocked on the full
\* query queue while a query worker holds the other one: none is checked in.
C36_Witness ==
    /\ \E w \in 1..Len(iw) :
          iw[w].pc = "push" /\ iw[w].mrns # <<>> /\ Len(query_queue) = query_queue_max(rl)
    /\ QueryWorkersLookingUp # {}
    /\ pool_free = 0

\* C37: when insert_batch raises during a flush, the step leaves the
\* inserted counters and the query queue as they were, the worker holds no
\* MRN to push, and the connection is back in the pool when the exception
\* leaves _flush; the worker, its thread ended, does nothing afterwards.
C37_FailedFlushLeavesNoTrace ==
    [][\A w \in 1..Len(iw) :
          /\ (iw[w].pc = "flush" /\ iw'[w].pc = "raised") =>
                /\ inserted_shared' = inserted_shared
                /\ query_queue' = query_queue
                /\ iw'[w].mrns = <<>>
                /\ pool_free' = pool_free
          /\ iw[w].pc = "raised" => iw'[w] = iw[w]]_vars

\* C37 witness: with lookups enabled, a worker's insert_batch raised on a
\* batch with a keyed record after an earlier batch had been counted.
C37_Witness ==
    /\ rl.queries_per_record > 0
    /\ inserted_shared.total > 0
    /\ \E w \in 1..Len(iw) :
          iw[w].pc = "raised" /\ mrns_from_batch(iw[w].accumulated) # <<>>

\* C1 witness: several processes, an uneven split and a non-empty Sink.
C1_Witness ==
    /\ cpc = "spawn"
    /\ args.processes = 3
    /\ total_records_of(args) = 4
    /\ max_counter = 1
    /\ patient_starts = <<2, 4, 5>>

====
